---- MODULE Spec2Model ----
(***************************************************************************)
(* Model of the health data provider orchestration and consolidation       *)
(* engine: HealthDataService (overlap merge, bulk consolidation,           *)
(* incremental merge) and HealthProviderManager (registry, polling,        *)
(* realtime subscriptions, listener fan-out).                              *)
(*                                                                         *)
(* Specifications                                                          *)
(*   SpecMerge : one run of mergeDataPoints, point by point, over every    *)
(*               bounded input collection.                                 *)
(*   Spec      : the manager from its construction on, with the calls of   *)
(*               the application, the settling of awaited source calls,    *)
(*               timers, realtime pushes and the health state they feed.   *)
(*   SpecIncremental : consolidation of a first window followed by the     *)
(*               incremental merge of a second one, over every bounded     *)
(*               store of reported points.                                 *)
(***************************************************************************)
EXTENDS Integers, Sequences, FiniteSets, TLC

\* ------------------------------------------------------------------------
\* Bounds
\* ------------------------------------------------------------------------
\* Timestamps range over 0..MaxTime.
MaxTime == 2
\* Longest input collection handed to one merge run.
MaxLen == 3
\* Number of calls the application makes to the manager in one run.
MaxCalls == 2
\* Number of points that the sources hold for the two windows together.
MaxReported == 2
\* calls of startPollingForProvider in SpecKeys
MaxIntervals == 3

\* ------------------------------------------------------------------------
\* Providers (AppleHealthProvider, GoogleHealthProvider, FitbitProvider)
\* ------------------------------------------------------------------------
ProviderIds == {"apple-health", "google-health", "fitbit"}

ApplePriority == 10
GooglePriority == 10
FitbitPriority == 0

\* provider.priority
Priority(id) ==
  CASE id = "apple-health" -> ApplePriority
    [] id = "google-health" -> GooglePriority
    [] id = "fitbit" -> FitbitPriority

\* source of the two points of the initial health state; it names no provider
TestSource == "test"

Sources == ProviderIds \cup {TestSource}

Times == 0..MaxTime

\* A DataPoint: a well-formed interval attributed to a source.
DataPoints == {p \in [start : Times, end : Times, source : Sources] : p.start <= p.end}

\* getProviderPriorities(): id -> priority over a list of providers
PriorityLookup(ids) == [id \in ids |-> Priority(id)]

VARIABLES
  dataPoints,          \* mergeDataPoints: the input collection
  providerPriorities,  \* mergeDataPoints: the priority lookup
  sortedPoints,        \* mergeDataPoints: input sorted by start
  merged,              \* mergeDataPoints: the output list being built
  pointIdx,            \* mergeDataPoints: position of the loop in sortedPoints
  mergePc              \* "input" | "loop" | "done" | "error"

mergeVars == <<dataPoints, providerPriorities, sortedPoints, merged, pointIdx, mergePc>>

VARIABLES
  providers,              \* HealthProviderManager.providers: registered ids, in insertion order
  providerSubscriptions,  \* HealthProviderManager.providerSubscriptions: id -> cleanup handle
  dataCallbacks,          \* HealthProviderManager.dataCallbacks: listeners, in insertion order
  pollingIntervals,       \* HealthProviderManager.pollingIntervals: keys <<id, metric>> with a timer
  enabledProviders,       \* ProviderState$.enabledProviders
  registerCall,           \* per id: position of its registerProvider call
  enableCall,             \* per id: position of its toggleProvider(.., true) / enableProvider call
  disableCall,            \* per id: position of its toggleProvider(.., false) / disableProvider call
  cleanupAll,             \* position of cleanupAllSubscriptions
  pollsInFlight,          \* keys <<id, metric>> whose pollData awaits getData
  activeStreams,          \* source side: subscriptions <<id, handle>> that push data
  nextHandle,             \* next cleanup handle that an onData call returns
  runningTimers,          \* runtime side: key <<id, metric>> -> number of setInterval timers
                          \* made for it and not cleared
  lastDelivery,           \* the notifyCallbacks round of the last step, if it reached a listener
  returned,               \* the call that returned or threw in the last step, with its error
  calls                   \* number of calls made by the application so far

managerVars == <<providers, providerSubscriptions, dataCallbacks, pollingIntervals,
                 enabledProviders, registerCall, enableCall, disableCall,
                 cleanupAll, pollsInFlight, activeStreams, nextHandle, runningTimers,
                 lastDelivery, returned, calls>>

VARIABLES
  healthData,    \* HealthState$.healthData: metric -> sample, if any
  refreshCall,   \* position of the refreshData / syncHealthData call
  reported,      \* source side: id -> the points the source holds for incMetric
  incMetric,     \* metric of the two windows
  boundary,      \* t1: first window [0, t1), second window [t1, MaxTime + 1)
  incPc          \* "input" | "consolidated" | "merged"

healthVars == <<healthData, refreshCall>>

incrementalVars == <<reported, incMetric, boundary, incPc>>

VARIABLES
  declaredMetrics,  \* SpecKeys: id -> getSupportedMetrics() of the provider with that id
  intervalEntries,  \* SpecKeys: entries [key, interval] of pollingIntervals, keys as strings
  liveIntervals,    \* SpecKeys: runtime side, the setInterval timers that are not cleared
  nextInterval,     \* SpecKeys: number of startPollingForProvider calls made
  lastPollingOp     \* SpecKeys: the call made in the last step

keyVars == <<declaredMetrics, intervalEntries, liveIntervals, nextInterval, lastPollingOp>>

vars == <<mergeVars, managerVars, healthVars, incrementalVars, keyVars>>

Range(s) == {s[i] : i \in 1..Len(s)}

\* ------------------------------------------------------------------------
\* mergeDataPoints
\* ------------------------------------------------------------------------
\* new Date(point.start): a Date built from a Date keeps its millisecond value
NewDate(t) == t

\* points.map(point => ({...point, start: new Date(..), end: new Date(..)}))
WithDateObjects(points) ==
  [i \in 1..Len(points) |->
     [points[i] EXCEPT !.start = NewDate(points[i].start), !.end = NewDate(points[i].end)]]

\* comparator of the sort: a.start.getTime() - b.start.getTime()
CompareStart(a, b) == a.start - b.start

\* insert p behind every element that does not compare greater (stable)
RECURSIVE InsertSorted(_, _)
InsertSorted(s, p) ==
  IF s = <<>> THEN <<p>>
  ELSE IF CompareStart(s[Len(s)], p) <= 0 THEN Append(s, p)
  ELSE Append(InsertSorted(SubSeq(s, 1, Len(s) - 1), p), s[Len(s)])

\* [...points].sort(comparator): Array.prototype.sort is stable
RECURSIVE SortByStart(_)
SortByStart(points) ==
  IF points = <<>> THEN <<>>
  ELSE InsertSorted(SortByStart(SubSeq(points, 1, Len(points) - 1)), points[Len(points)])

\* variant: touching endpoints are not taken as overlap
OverlapsStrict(point, existing) ==
  point.start < existing.end /\ point.end > existing.start

\* the predicate of merged.find(...): inclusive on both ends
Overlaps(point, existing) ==
  point.start <= existing.end /\ point.end >= existing.start

\* merged.find(...): index of the first overlapping entry, 0 for undefined
FindOverlapping(list, point) ==
  IF \E i \in 1..Len(list) : Overlaps(point, list[i])
  THEN CHOOSE i \in 1..Len(list) :
         /\ Overlaps(point, list[i])
         /\ \A j \in 1..(i - 1) : ~Overlaps(point, list[j])
  ELSE 0

\* value of a lookup miss, providerPriorities[id] for an id that is no key
Undefined == -1

\* providerPriorities[point.source]
LookupPriority(priorities, id) ==
  IF id \in DOMAIN priorities THEN priorities[id] ELSE Undefined

\* variant: only the priority of the processed point is tested
PriorityMissingCurrentOnly(currentPriority, existingPriority) ==
  currentPriority = Undefined

\* currentPriority === undefined || existingPriority === undefined
PriorityMissing(currentPriority, existingPriority) ==
  currentPriority = Undefined \/ existingPriority = Undefined

\* variant: a tie replaces the existing entry as well
OutranksOrTies(currentPriority, existingPriority) ==
  /\ currentPriority # Undefined
  /\ existingPriority # Undefined
  /\ currentPriority >= existingPriority

\* currentPriority > existingPriority (false when either side is undefined)
Outranks(currentPriority, existingPriority) ==
  /\ currentPriority # Undefined
  /\ existingPriority # Undefined
  /\ currentPriority > existingPriority

\* variant: the winning point is stretched over the entry it replaces
MergeOneWidens(list, point, priorities) ==
  LET i == FindOverlapping(list, point) IN
  IF i = 0 THEN [merged |-> Append(list, point), error |-> FALSE]
  ELSE LET currentPriority == LookupPriority(priorities, point.source)
           existingPriority == LookupPriority(priorities, list[i].source)
       IN IF PriorityMissing(currentPriority, existingPriority)
          THEN [merged |-> list, error |-> TRUE]
          ELSE IF Outranks(currentPriority, existingPriority)
               THEN [merged |-> [list EXCEPT ![i] =
                                   [point EXCEPT !.start = list[i].start]],
                     error |-> FALSE]
               ELSE [merged |-> list, error |-> FALSE]

\* variant: the winning point is put in front and the entry it beats removed
MergeOneMovesToFront(list, point, priorities) ==
  LET i == FindOverlapping(list, point) IN
  IF i = 0 THEN [merged |-> Append(list, point), error |-> FALSE]
  ELSE LET currentPriority == LookupPriority(priorities, point.source)
           existingPriority == LookupPriority(priorities, list[i].source)
       IN IF PriorityMissing(currentPriority, existingPriority)
          THEN [merged |-> list, error |-> TRUE]
          ELSE IF Outranks(currentPriority, existingPriority)
               THEN [merged |-> <<point>> \o SubSeq(list, 1, i - 1)
                                          \o SubSeq(list, i + 1, Len(list)),
                     error |-> FALSE]
               ELSE [merged |-> list, error |-> FALSE]

\* One iteration of the for loop over sortedPoints.
MergeOne(list, point, priorities) ==
  LET i == FindOverlapping(list, point) IN
  IF i = 0 THEN [merged |-> Append(list, point), error |-> FALSE]
  ELSE LET currentPriority == LookupPriority(priorities, point.source)
           existingPriority == LookupPriority(priorities, list[i].source)
       IN IF PriorityMissing(currentPriority, existingPriority)
          THEN [merged |-> list, error |-> TRUE]
          ELSE IF Outranks(currentPriority, existingPriority)
               THEN [merged |-> [list EXCEPT ![i] = point], error |-> FALSE]
               ELSE [merged |-> list, error |-> FALSE]

\* kind of the error that the loop throws
PriorityError == "PRIORITY_ERROR"

\* The whole loop, from position k of sorted: the returned list, or
\* error when the loop throws.
RECURSIVE MergeFrom(_, _, _, _)
MergeFrom(list, sorted, k, priorities) ==
  IF k > Len(sorted) THEN [merged |-> list, error |-> FALSE]
  ELSE LET r == MergeOne(list, sorted[k], priorities) IN
       IF r.error THEN r
       ELSE MergeFrom(r.merged, sorted, k + 1, priorities)

\* mergeDataPoints(dataPoints, providerPriorities)
MergeDataPoints(points, priorities) ==
  IF Len(points) = 0 THEN [merged |-> <<>>, error |-> FALSE]
  ELSE MergeFrom(<<>>, SortByStart(WithDateObjects(points)), 1, priorities)

\* ------------------------------------------------------------------------
\* SpecMerge: a run of mergeDataPoints, one loop iteration per step
\* ------------------------------------------------------------------------
\* the caller collects one more point into the input
CollectPoint ==
  /\ mergePc = "input"
  /\ Len(dataPoints) < MaxLen
  /\ \E p \in DataPoints : dataPoints' = Append(dataPoints, p)
  /\ UNCHANGED <<providerPriorities, sortedPoints, merged, pointIdx, mergePc>>
  /\ UNCHANGED <<managerVars, healthVars, incrementalVars, keyVars>>

\* entry of mergeDataPoints up to the loop
MergeStart ==
  /\ mergePc = "input"
  /\ IF Len(dataPoints) = 0
     THEN /\ mergePc' = "done"
          /\ UNCHANGED sortedPoints
     ELSE /\ mergePc' = "loop"
          /\ sortedPoints' = SortByStart(WithDateObjects(dataPoints))
  /\ merged' = <<>>
  /\ pointIdx' = 1
  /\ UNCHANGED <<dataPoints, providerPriorities>>
  /\ UNCHANGED <<managerVars, healthVars, incrementalVars, keyVars>>

\* one iteration of the loop
MergeStep ==
  /\ mergePc = "loop"
  /\ pointIdx <= Len(sortedPoints)
  /\ LET r == MergeOne(merged, sortedPoints[pointIdx], providerPriorities) IN
       IF r.error
       THEN /\ mergePc' = "error"
            /\ UNCHANGED <<merged, pointIdx>>
       ELSE /\ merged' = r.merged
            /\ pointIdx' = pointIdx + 1
            /\ mergePc' = IF pointIdx = Len(sortedPoints) THEN "done" ELSE "loop"
  /\ UNCHANGED <<dataPoints, providerPriorities, sortedPoints>>
  /\ UNCHANGED <<managerVars, healthVars, incrementalVars, keyVars>>

MergeInit ==
  /\ dataPoints = <<>>
  /\ providerPriorities = PriorityLookup(ProviderIds)
  /\ sortedPoints = <<>>
  /\ merged = <<>>
  /\ pointIdx = 1
  /\ mergePc = "input"

MergeNext == CollectPoint \/ MergeStart \/ MergeStep

\* ------------------------------------------------------------------------
\* SpecKeys: the keys of the timer map as strings. A string is the sequence
\* of its parts between the '-' signs: "fitbit-x-sleep" is
\* <<"fitbit", "x", "sleep">>.
\* ------------------------------------------------------------------------
\* ids of providers that a manager can be given: two of the application's
\* and one more whose id begins with the id of another and a '-'
StringIds == {<<"apple", "health">>, <<"fitbit">>, <<"fitbit", "x">>}

\* `${provider.id}-${metric}`
TimerKey(id, metric) == Append(id, metric)

\* key.startsWith(`${providerId}-`)
KeyStartsWith(key, id) == Len(id) < Len(key) /\ SubSeq(key, 1, Len(id)) = id

\* no step of startPollingForProvider / stopPollingForProvider was taken
NoPollingOp == [op |-> "none"]

\* stopPollingForProvider(providerId): the entries whose key starts with
\* the id and a '-' are cleared and deleted
StopPollingForProvider(id) ==
  LET stopped == {entry \in intervalEntries : KeyStartsWith(entry.key, id)} IN
  /\ intervalEntries' = intervalEntries \ stopped
  /\ liveIntervals' = liveIntervals \ {entry.interval : entry \in stopped}
  /\ lastPollingOp' = [op |-> "stop", id |-> id]
  /\ UNCHANGED <<declaredMetrics, nextInterval>>
  /\ UNCHANGED <<mergeVars, managerVars, healthVars, incrementalVars>>

\* startPollingForProvider(provider, startDate): the timers of the provider
\* are stopped, then one is set for each metric it supports and stored
\* under the key of provider and metric
StartPollingForProvider(id) ==
  LET stopped == {entry \in intervalEntries : KeyStartsWith(entry.key, id)}
      made == {[key |-> TimerKey(id, metric), interval |-> <<id, metric, nextInterval>>] :
                 metric \in declaredMetrics[id]}
  IN /\ nextInterval < MaxIntervals
     /\ intervalEntries' = (intervalEntries \ stopped) \cup made
     /\ liveIntervals' =
          (liveIntervals \ {entry.interval : entry \in stopped})
            \cup {entry.interval : entry \in made}
     /\ nextInterval' = nextInterval + 1
     /\ lastPollingOp' = [op |-> "start", id |-> id]
     /\ UNCHANGED declaredMetrics
     /\ UNCHANGED <<mergeVars, managerVars, healthVars, incrementalVars>>

\* the timer map of a manager without timers
KeysIdle ==
  /\ declaredMetrics = [id \in StringIds |-> {"sleep"}]
  /\ intervalEntries = {}
  /\ liveIntervals = {}
  /\ nextInterval = 0
  /\ lastPollingOp = NoPollingOp

\* each provider supports some metrics
KeysInit ==
  /\ declaredMetrics \in [StringIds -> {{"sleep"}, {"sleep", "illness"}}]
  /\ intervalEntries = {}
  /\ liveIntervals = {}
  /\ nextInterval = 0
  /\ lastPollingOp = NoPollingOp

KeysNext ==
  \/ \E id \in StringIds : StartPollingForProvider(id)
  \/ \E id \in StringIds : StopPollingForProvider(id)

\* ------------------------------------------------------------------------
\* HealthProviderManager: providers and what they declare
\* ------------------------------------------------------------------------
\* keys of HealthMetricValueMap
HealthMetrics == {"sleep", "illness", "stress"}

\* provider.getSupportedMetrics(): the keys of its metricMapping
SupportedMetrics(id) ==
  CASE id = "apple-health" -> {"illness", "sleep"}
    [] id = "google-health" -> {"sleep", "illness"}
    [] id = "fitbit" -> {"sleep"}

\* provider.config.realtime.supported
RealtimeSupported(id) == id = "apple-health"

\* provider.config.polling.supported
PollingSupported(id) == id \in {"apple-health", "google-health", "fitbit"}

\* how await provider.isAvailable() can settle: FitbitProvider resolves true,
\* the other two ask the platform and wrap a failure as PROVIDER_UNAVAILABLE
Availability(id) == IF id = "fitbit" THEN {"yes"} ELSE {"yes", "no", "throws"}

\* listeners that the application registers: each call of the hook's
\* subscribeToHealthUpdates passes a new callback, and each of them merges
\* what it receives into HealthState$
Listeners == {"listener1", "listener2"}

\* how an awaited call on a source settles: it resolves, it rejects with a
\* typed domain error (TrackleError), or it rejects with any other error
Outcomes == {"ok", "typed", "untyped"}

\* the value of a sample that a source hands out: no point, or one point
SampleValues(id) == {<<>>, <<[start |-> 0, end |-> 1, source |-> id]>>}

NoError == "none"
IdleCall == [pc |-> "idle", steps |-> <<>>]
\* (duringEnable: an enableProvider of the same provider was under way when
\* disableProvider was called)
IdleDisable == [pc |-> "idle", handle |-> 0, steps |-> <<>>, duringEnable |-> FALSE]
NoDelivery == [path |-> "none"]
NoReturn == [op |-> "none"]

\* a call of the manager returns (error = NoError) or throws an error of
\* its own (cause = NoError)
Return(op, id, error, steps) ==
  [op |-> op, id |-> id, error |-> error, steps |-> steps, cause |-> NoError]

\* a call of the manager throws in its catch block: cause is the error the
\* awaited call of the source rejected with
Rethrown(op, id, error, steps, cause) ==
  [op |-> op, id |-> id, error |-> error, steps |-> steps, cause |-> cause]

\* this.providers.has(id)
IsRegistered(id) == \E i \in 1..Len(providers) : providers[i] = id

\* key.startsWith(`${providerId}-`) for the keys `${provider.id}-${metric}`
KeyOfProvider(key, id) == key[1] = id

\* hasValidData(metric, data)
HasValidData(value) == Len(value) > 0

\* stopPollingForProvider(providerId): clearInterval and delete, per key
StopPolling(timers, id) == {key \in timers : ~KeyOfProvider(key, id)}

\* the keys that startPollingForProvider sets, one per supported metric
PollingKeys(id) ==
  IF PollingSupported(id) THEN {<<id, m>> : m \in SupportedMetrics(id)} ELSE {}

\* the keys of all timers that can be made
TimerKeys == ProviderIds \X HealthMetrics

\* clearInterval(interval) for the intervals that the map holds under keys
ClearIntervals(running, keys) ==
  [key \in TimerKeys |->
     IF key \in keys /\ running[key] > 0 THEN running[key] - 1 ELSE running[key]]

\* setInterval(pollData, ..) once for each of the keys
SetIntervals(running, keys) ==
  [key \in TimerKeys |-> IF key \in keys THEN running[key] + 1 ELSE running[key]]

\* the keys of the map that stopPollingForProvider(id) clears and deletes
StoppedKeys(timers, id) == {key \in timers : KeyOfProvider(key, id)}

\* variant: the timers of the provider are not stopped before new ones are set
StartPollingNoStop(id) ==
  /\ pollingIntervals' = pollingIntervals \cup PollingKeys(id)
  /\ runningTimers' = SetIntervals(runningTimers, PollingKeys(id))
  /\ pollsInFlight' = pollsInFlight \cup PollingKeys(id)

\* startPollingForProvider(provider, startDate): restart the timers of the
\* provider; every pollData runs once at once
StartPolling(id) ==
  /\ pollingIntervals' =
       IF PollingSupported(id)
       THEN StopPolling(pollingIntervals, id) \cup PollingKeys(id)
       ELSE pollingIntervals
  /\ runningTimers' =
       IF PollingSupported(id)
       THEN SetIntervals(ClearIntervals(runningTimers, StoppedKeys(pollingIntervals, id)),
                         PollingKeys(id))
       ELSE runningTimers
  /\ pollsInFlight' = pollsInFlight \cup PollingKeys(id)

\* ------------------------------------------------------------------------
\* HealthDataService and HealthState$
\* ------------------------------------------------------------------------
\* a HealthMetricSample is modelled by its value, the points; a metric that
\* healthData has no key for is Absent
Absent == [present |-> FALSE, value |-> <<>>]
Sample(value) == [present |-> TRUE, value |-> value]

\* initialState.healthData: stress holds two points of source 'test', each
\* with start and end at the time of construction
InitialHealthData ==
  [m \in HealthMetrics |->
     IF m = "stress"
     THEN Sample(<<[start |-> 0, end |-> 0, source |-> TestSource],
                   [start |-> 0, end |-> 0, source |-> TestSource]>>)
     ELSE Absent]

\* healthData: {} as syncHealthData returns it after an error
NoHealthData == [m \in HealthMetrics |-> Absent]

\* HEALTH_METRICS of healthDataConstants.ts, the metrics of HealthMetric
HEALTH_METRICS == HealthMetrics

\* enabledProviders.includes(provider.id)
IsEnabled(id) == \E i \in 1..Len(enabledProviders) : enabledProviders[i] = id

\* variant: an element of equal priority is moved behind the inserted one
RECURSIVE InsertByPriorityTiesFirst(_, _)
InsertByPriorityTiesFirst(s, id) ==
  IF s = <<>> THEN <<id>>
  ELSE IF Priority(id) - Priority(s[Len(s)]) < 0 THEN Append(s, id)
  ELSE Append(InsertByPriorityTiesFirst(SubSeq(s, 1, Len(s) - 1), id), s[Len(s)])

\* insert id behind every element that b.priority - a.priority keeps in front
RECURSIVE InsertByPriority(_, _)
InsertByPriority(s, id) ==
  IF s = <<>> THEN <<id>>
  ELSE IF Priority(id) - Priority(s[Len(s)]) <= 0 THEN Append(s, id)
  ELSE Append(InsertByPriority(SubSeq(s, 1, Len(s) - 1), id), s[Len(s)])

\* .sort((a, b) => b.priority - a.priority), stable
RECURSIVE SortByPriority(_)
SortByPriority(ids) ==
  IF ids = <<>> THEN <<>>
  ELSE InsertByPriority(SortByPriority(SubSeq(ids, 1, Len(ids) - 1)), ids[Len(ids)])

\* getProvidersForMetric(metric): registered providers that support the
\* metric and are in the enabled-set, by descending priority
GetProvidersForMetric(metric) ==
  SortByPriority(SelectSeq(providers,
                           LAMBDA id : metric \in SupportedMetrics(id) /\ IsEnabled(id)))

\* getAllProviders()
GetAllProviders == providers

\* getProviderPriorities() of HealthDataService
GetProviderPriorities == PriorityLookup(Range(GetAllProviders))

\* data.value.map(point => ({...point, source: provider.id}))
WithSource(value, id) == [i \in 1..Len(value) |-> [value[i] EXCEPT !.source = id]]

\* the collection loop of consolidateHealthMetrics over the providers ids,
\* fetched[id] being the value that getData of id resolved with
RECURSIVE CollectAll(_, _)
CollectAll(ids, fetched) ==
  IF ids = <<>> THEN <<>>
  ELSE (IF HasValidData(fetched[ids[1]]) THEN WithSource(fetched[ids[1]], ids[1]) ELSE <<>>)
         \o CollectAll(Tail(ids), fetched)

\* variant: the lookup holds the priority of the first provider only
ConsolidateMetricFirstPriority(metric, fetched) ==
  LET ids == GetProvidersForMetric(metric)
      allDataPoints == SortByStart(CollectAll(ids, fetched))
  IN MergeDataPoints(allDataPoints,
                     PriorityLookup(IF ids = <<>> THEN {} ELSE {ids[1]}))

\* consolidateHealthMetrics for one metric: collect, sort, merge with the
\* priorities of the providers of the metric
ConsolidateMetric(metric, fetched) ==
  LET ids == GetProvidersForMetric(metric)
      allDataPoints == SortByStart(CollectAll(ids, fetched))
  IN MergeDataPoints(allDataPoints, PriorityLookup(Range(ids)))

\* consolidateHealthMetrics(metrics, startDate, endDate), fetched[m][id]
\* being what getData(m, startDate, endDate) of id resolved with: a metric
\* is put into the result only if its merged list is not empty
ConsolidateHealthMetrics(metrics, fetched) ==
  [healthData |->
     [m \in HealthMetrics |->
        IF m \in metrics /\ Len(ConsolidateMetric(m, fetched[m]).merged) > 0
        THEN Sample(ConsolidateMetric(m, fetched[m]).merged)
        ELSE Absent],
   error |-> \E m \in metrics : ConsolidateMetric(m, fetched[m]).error]

\* variant: the incoming points are appended to the existing ones
MergeMetricDataAppends(existing, newData) ==
  IF ~existing.present THEN [sample |-> newData, error |-> FALSE]
  ELSE [sample |-> Sample(existing.value \o newData.value), error |-> FALSE]

\* mergeMetricData(existing, newData)
MergeMetricData(existing, newData) ==
  IF ~existing.present THEN [sample |-> newData, error |-> FALSE]
  ELSE LET r == MergeDataPoints(existing.value \o newData.value, GetProviderPriorities)
       IN [sample |-> Sample(r.merged), error |-> r.error]

\* the callback a listener was subscribed with, called with (metric,
\* newData): setHealthState(prev => ...) with the merged sample under the
\* metric; a throw of mergeMetricData leaves the state as it is
OnHealthUpdate(data, metric, newData) ==
  LET r == MergeMetricData(data[metric], newData) IN
  IF r.error THEN [healthData |-> data, error |-> TRUE]
  ELSE [healthData |-> [data EXCEPT ![metric] = r.sample], error |-> FALSE]

\* the loop of notifyCallbacks from listener k on: a throw of a callback
\* leaves the loop, the listeners behind it are not called. thrower is the
\* place of the listener whose callback throws when it is called in this
\* round (0: none does)
RECURSIVE CallbacksFrom(_, _, _, _, _)
CallbacksFrom(k, data, metric, newData, thrower) ==
  IF k > Len(dataCallbacks) THEN [healthData |-> data, called |-> k - 1, error |-> FALSE]
  ELSE IF k = thrower THEN [healthData |-> data, called |-> k, error |-> TRUE]
  ELSE LET r == OnHealthUpdate(data, metric, newData) IN
       IF r.error THEN [healthData |-> data, called |-> k, error |-> TRUE]
       ELSE CallbacksFrom(k + 1, r.healthData, metric, newData, thrower)

\* notifyCallbacks(metric, data): every listener is called in turn
NotifyCallbacks(path, id, metric, value) ==
  \E thrower \in 0..Len(dataCallbacks) :
    LET r == CallbacksFrom(1, healthData, metric, Sample(value), thrower) IN
    /\ lastDelivery' =
         IF dataCallbacks = <<>> THEN NoDelivery
         ELSE [path |-> path, source |-> id, metric |-> metric, value |-> value,
               listeners |-> SubSeq(dataCallbacks, 1, r.called), error |-> r.error]
    /\ healthData' = r.healthData

\* initializeProviderStream after onData resolved: the handle is stored
\* under the id, replacing the handle that was there
StoreSubscription(id) ==
  /\ providerSubscriptions' =
       [k \in DOMAIN providerSubscriptions \cup {id} |->
          IF k = id THEN nextHandle ELSE providerSubscriptions[k]]
  /\ activeStreams' = activeStreams \cup {<<id, nextHandle>>}
  /\ nextHandle' = nextHandle + 1

\* the error that leaves initializeProviderStream when onData rejects: a
\* typed error as it is (SUBSCRIPTION_ERROR is what a source raises), any
\* other wrapped as SUBSCRIPTION_ERROR
StreamError(outcome) == "SUBSCRIPTION_ERROR"

\* the error a step of a source rejects with: a HealthDataError of the kind
\* the sources raise in that step, or a plain Error
SourceError(step, outcome) ==
  IF outcome = "untyped" THEN "Error"
  ELSE IF step = "init" THEN "PROVIDER_UNAVAILABLE"
  ELSE IF step = "requestPermissions" THEN "PERMISSION_DENIED"
  ELSE IF step \in {"cleanup", "cleanUp"} THEN "CLEANUP_ERROR"
  ELSE IF step = "getData" THEN "DATA_FETCH_ERROR"
  ELSE "SUBSCRIPTION_ERROR"

\* variant: the catch block wraps whatever it caught
EnableErrorWrapsAll(step, outcome) == "PROVIDER_INIT_FAILED"

\* the error that leaves enableProvider when a step rejects: a typed error
\* as it is, any other wrapped as PROVIDER_INIT_FAILED
EnableError(step, outcome) ==
  IF step = "onData" THEN StreamError(outcome)
  ELSE IF outcome = "typed"
  THEN (IF step = "init" THEN "PROVIDER_UNAVAILABLE" ELSE "PERMISSION_DENIED")
  ELSE "PROVIDER_INIT_FAILED"

\* ------------------------------------------------------------------------
\* registerProvider (called by the constructor for each provider)
\* ------------------------------------------------------------------------
\* registerProvider(provider) up to its first await: provider.isAvailable()
\* is called. (The constructor makes the first call for each provider.)
RegisterProvider(id) ==
  /\ calls < MaxCalls
  /\ registerCall[id] = "settled"
  /\ calls' = calls + 1
  /\ registerCall' = [registerCall EXCEPT ![id] = "isAvailable"]
  /\ returned' = NoReturn
  /\ lastDelivery' = NoDelivery
  /\ UNCHANGED <<providers, providerSubscriptions, dataCallbacks, pollingIntervals, runningTimers,
                 enabledProviders, enableCall, disableCall, cleanupAll, pollsInFlight,
                 activeStreams, nextHandle>>
  /\ UNCHANGED <<healthData, refreshCall>>
  /\ UNCHANGED <<mergeVars, incrementalVars, keyVars>>

\* variant: the provider map is not asked whether it has the id, the
\* provider is set in any case
RegisterAvailabilitySettledReplaces(id) ==
  /\ registerCall[id] = "isAvailable"
  /\ \E available \in Availability(id) :
       CASE available = "throws" ->
              /\ registerCall' = [registerCall EXCEPT ![id] = "settled"]
              /\ returned' = Rethrown("register", id, "PROVIDER_UNAVAILABLE", <<>>,
                                      "PROVIDER_UNAVAILABLE")
              /\ UNCHANGED providers
         [] available = "no" ->
              /\ registerCall' = [registerCall EXCEPT ![id] = "settled"]
              /\ returned' = Return("register", id, NoError, <<"isAvailable:false">>)
              /\ UNCHANGED providers
         [] available = "yes" ->
              /\ providers' = IF IsRegistered(id) THEN providers ELSE Append(providers, id)
              /\ IF RealtimeSupported(id)
                 THEN /\ registerCall' = [registerCall EXCEPT ![id] = "onData"]
                      /\ returned' = NoReturn
                 ELSE /\ registerCall' = [registerCall EXCEPT ![id] = "settled"]
                      /\ returned' = Return("register", id, NoError, <<>>)
  /\ lastDelivery' = NoDelivery
  /\ UNCHANGED <<providerSubscriptions, dataCallbacks, pollingIntervals, runningTimers, enabledProviders,
                 enableCall, disableCall, cleanupAll, pollsInFlight, activeStreams,
                 nextHandle, calls>>
  /\ UNCHANGED <<healthData, refreshCall>>
  /\ UNCHANGED <<mergeVars, incrementalVars, keyVars>>

\* variant: the provider is set although isAvailable resolved false
RegisterAvailabilitySettledSetsAnyway(id) ==
  /\ registerCall[id] = "isAvailable"
  /\ \E available \in Availability(id) :
       CASE available = "throws" ->
              /\ registerCall' = [registerCall EXCEPT ![id] = "settled"]
              /\ returned' = Rethrown("register", id, "PROVIDER_UNAVAILABLE", <<>>,
                                      "PROVIDER_UNAVAILABLE")
              /\ UNCHANGED providers
         [] available = "no" ->
              /\ registerCall' = [registerCall EXCEPT ![id] = "settled"]
              /\ returned' = Return("register", id, NoError, <<"isAvailable:false">>)
              /\ providers' = IF IsRegistered(id) THEN providers ELSE Append(providers, id)
         [] available = "yes" /\ IsRegistered(id) ->
              /\ registerCall' = [registerCall EXCEPT ![id] = "settled"]
              /\ returned' = Return("register", id, "Error", <<>>)
              /\ UNCHANGED providers
         [] available = "yes" /\ ~IsRegistered(id) ->
              /\ providers' = Append(providers, id)
              /\ IF RealtimeSupported(id)
                 THEN /\ registerCall' = [registerCall EXCEPT ![id] = "onData"]
                      /\ returned' = NoReturn
                 ELSE /\ registerCall' = [registerCall EXCEPT ![id] = "settled"]
                      /\ returned' = Return("register", id, NoError, <<>>)
  /\ lastDelivery' = NoDelivery
  /\ UNCHANGED <<providerSubscriptions, dataCallbacks, pollingIntervals, runningTimers, enabledProviders,
                 enableCall, disableCall, cleanupAll, pollsInFlight, activeStreams,
                 nextHandle, calls>>
  /\ UNCHANGED <<healthData, refreshCall>>
  /\ UNCHANGED <<mergeVars, incrementalVars, keyVars>>

\* await provider.isAvailable() settles; a call that returns because the
\* answer was false has the log entry "isAvailable:false"
RegisterAvailabilitySettled(id) ==
  /\ registerCall[id] = "isAvailable"
  /\ \E available \in Availability(id) :
       CASE available = "throws" ->
              /\ registerCall' = [registerCall EXCEPT ![id] = "settled"]
              /\ returned' = Rethrown("register", id, "PROVIDER_UNAVAILABLE", <<>>,
                                      "PROVIDER_UNAVAILABLE")
              /\ UNCHANGED providers
         [] available = "no" ->
              /\ registerCall' = [registerCall EXCEPT ![id] = "settled"]
              /\ returned' = Return("register", id, NoError, <<"isAvailable:false">>)
              /\ UNCHANGED providers
         [] available = "yes" /\ IsRegistered(id) ->
              /\ registerCall' = [registerCall EXCEPT ![id] = "settled"]
              /\ returned' = Return("register", id, "Error", <<>>)
              /\ UNCHANGED providers
         [] available = "yes" /\ ~IsRegistered(id) ->
              /\ providers' = Append(providers, id)
              /\ IF RealtimeSupported(id)
                 THEN /\ registerCall' = [registerCall EXCEPT ![id] = "onData"]
                      /\ returned' = NoReturn
                 ELSE /\ registerCall' = [registerCall EXCEPT ![id] = "settled"]
                      /\ returned' = Return("register", id, NoError, <<>>)
  /\ lastDelivery' = NoDelivery
  /\ UNCHANGED <<providerSubscriptions, dataCallbacks, pollingIntervals, runningTimers, enabledProviders,
                 enableCall, disableCall, cleanupAll, pollsInFlight, activeStreams,
                 nextHandle, calls>>
  /\ UNCHANGED <<healthData, refreshCall>>
  /\ UNCHANGED <<mergeVars, incrementalVars, keyVars>>

\* variant: the cleanup function that onData resolved with is dropped
RegisterStreamSettledDropsHandle(id) ==
  /\ registerCall[id] = "onData"
  /\ registerCall' = [registerCall EXCEPT ![id] = "settled"]
  /\ \E outcome \in Outcomes :
       IF outcome = "ok"
       THEN /\ activeStreams' = activeStreams \cup {<<id, nextHandle>>}
            /\ nextHandle' = nextHandle + 1
            /\ UNCHANGED providerSubscriptions
            /\ returned' = Return("register", id, NoError, <<"onData">>)
       ELSE /\ returned' = Rethrown("register", id, StreamError(outcome), <<"onData">>,
                                      SourceError("onData", outcome))
            /\ UNCHANGED <<providerSubscriptions, activeStreams, nextHandle>>
  /\ lastDelivery' = NoDelivery
  /\ UNCHANGED <<providers, dataCallbacks, pollingIntervals, runningTimers, enabledProviders, enableCall,
                 disableCall, cleanupAll, pollsInFlight, calls>>
  /\ UNCHANGED <<healthData, refreshCall>>
  /\ UNCHANGED <<mergeVars, incrementalVars, keyVars>>

\* variant: a provider whose stream did not start is taken out of the map
RegisterStreamSettledRollsBack(id) ==
  /\ registerCall[id] = "onData"
  /\ registerCall' = [registerCall EXCEPT ![id] = "settled"]
  /\ \E outcome \in Outcomes :
       IF outcome = "ok"
       THEN /\ StoreSubscription(id)
            /\ UNCHANGED providers
            /\ returned' = Return("register", id, NoError, <<"onData">>)
       ELSE /\ returned' = Rethrown("register", id, StreamError(outcome), <<"onData">>,
                                      SourceError("onData", outcome))
            /\ providers' = SelectSeq(providers, LAMBDA p : p # id)
            /\ UNCHANGED <<providerSubscriptions, activeStreams, nextHandle>>
  /\ lastDelivery' = NoDelivery
  /\ UNCHANGED <<dataCallbacks, pollingIntervals, runningTimers, enabledProviders, enableCall,
                 disableCall, cleanupAll, pollsInFlight, calls>>
  /\ UNCHANGED <<healthData, refreshCall>>
  /\ UNCHANGED <<mergeVars, incrementalVars, keyVars>>

\* await this.initializeProviderStream(provider, new Date()) settles
RegisterStreamSettled(id) ==
  /\ registerCall[id] = "onData"
  /\ registerCall' = [registerCall EXCEPT ![id] = "settled"]
  /\ \E outcome \in Outcomes :
       IF outcome = "ok"
       THEN /\ StoreSubscription(id)
            /\ returned' = Return("register", id, NoError, <<"onData">>)
       ELSE /\ returned' = Rethrown("register", id, StreamError(outcome), <<"onData">>,
                                      SourceError("onData", outcome))
            /\ UNCHANGED <<providerSubscriptions, activeStreams, nextHandle>>
  /\ lastDelivery' = NoDelivery
  /\ UNCHANGED <<providers, dataCallbacks, pollingIntervals, runningTimers, enabledProviders, enableCall,
                 disableCall, cleanupAll, pollsInFlight, calls>>
  /\ UNCHANGED <<healthData, refreshCall>>
  /\ UNCHANGED <<mergeVars, incrementalVars, keyVars>>

\* ------------------------------------------------------------------------
\* toggleProvider(provider, true) -> enableProvider
\* ------------------------------------------------------------------------
\* toggleProvider once enableProvider has resolved: the id is appended to
\* the enabled-set. (When enableProvider throws, toggleProvider keeps only
\* the message, in ProviderState$.error, which nothing but the settings
\* screen reads; the model reports the error in returned.)
EnableResolved(id, steps) ==
  /\ enabledProviders' = Append(enabledProviders, id)
  /\ enableCall' = [enableCall EXCEPT ![id] = IdleCall]
  /\ returned' = Return("enable", id, NoError, steps)

\* variant: the id is put into the enabled-set although enableProvider threw
EnableRejectedAddsAnyway(id, error, steps, cause) ==
  /\ enabledProviders' = Append(enabledProviders, id)
  /\ enableCall' = [enableCall EXCEPT ![id] = IdleCall]
  /\ returned' = Rethrown("enable", id, error, steps, cause)

EnableRejected(id, error, steps, cause) ==
  /\ UNCHANGED enabledProviders
  /\ enableCall' = [enableCall EXCEPT ![id] = IdleCall]
  /\ returned' = Rethrown("enable", id, error, steps, cause)

\* variant: the lookup result is not tested, init is called in any case
EnableProviderUnchecked(id) ==
  /\ calls < MaxCalls
  /\ enableCall[id].pc = "idle"
  /\ calls' = calls + 1
  /\ enableCall' = [enableCall EXCEPT ![id] = [pc |-> "init", steps |-> <<"init">>]]
  /\ returned' = NoReturn
  /\ lastDelivery' = NoDelivery
  /\ UNCHANGED <<providers, providerSubscriptions, dataCallbacks, pollingIntervals, runningTimers,
                 enabledProviders, registerCall, disableCall, cleanupAll, pollsInFlight,
                 activeStreams, nextHandle>>
  /\ UNCHANGED <<healthData, refreshCall>>
  /\ UNCHANGED <<mergeVars, incrementalVars, keyVars>>

\* enableProvider up to its first await: the lookup, then provider.init()
EnableProvider(id) ==
  /\ calls < MaxCalls
  /\ enableCall[id].pc = "idle"
  /\ calls' = calls + 1
  /\ IF ~IsRegistered(id)
     THEN EnableRejected(id, "PROVIDER_NOT_FOUND", <<>>, NoError)
     ELSE /\ enableCall' = [enableCall EXCEPT ![id] = [pc |-> "init", steps |-> <<"init">>]]
          /\ returned' = NoReturn
          /\ UNCHANGED enabledProviders
  /\ lastDelivery' = NoDelivery
  /\ UNCHANGED <<providers, providerSubscriptions, dataCallbacks, pollingIntervals, runningTimers,
                 registerCall, disableCall, cleanupAll, pollsInFlight, activeStreams,
                 nextHandle>>
  /\ UNCHANGED <<healthData, refreshCall>>
  /\ UNCHANGED <<mergeVars, incrementalVars, keyVars>>

\* await provider.init() settles; on success requestPermissions is called
EnableInitSettled(id) ==
  /\ enableCall[id].pc = "init"
  /\ \E outcome \in Outcomes :
       IF outcome = "ok"
       THEN /\ enableCall' = [enableCall EXCEPT ![id] =
                 [pc |-> "requestPermissions", steps |-> Append(@.steps, "requestPermissions")]]
            /\ returned' = NoReturn
            /\ UNCHANGED enabledProviders
       ELSE EnableRejected(id, EnableError("init", outcome), enableCall[id].steps,
                           SourceError("init", outcome))
  /\ lastDelivery' = NoDelivery
  /\ UNCHANGED <<providers, providerSubscriptions, dataCallbacks, pollingIntervals, runningTimers,
                 registerCall, disableCall, cleanupAll, pollsInFlight, activeStreams,
                 nextHandle, calls>>
  /\ UNCHANGED <<healthData, refreshCall>>
  /\ UNCHANGED <<mergeVars, incrementalVars, keyVars>>

\* await provider.requestPermissions(HEALTH_METRICS) settles; on success
\* the stream is started if realtime is supported, else polling is started
\* (if supported) and enableProvider returns
EnablePermissionsSettled(id) ==
  /\ enableCall[id].pc = "requestPermissions"
  /\ \E outcome \in Outcomes :
       IF outcome # "ok"
       THEN /\ EnableRejected(id, EnableError("requestPermissions", outcome),
                              enableCall[id].steps,
                              SourceError("requestPermissions", outcome))
            /\ UNCHANGED <<pollingIntervals, runningTimers, pollsInFlight>>
       ELSE IF RealtimeSupported(id)
       THEN /\ enableCall' = [enableCall EXCEPT ![id] =
                 [pc |-> "onData", steps |-> Append(@.steps, "onData")]]
            /\ returned' = NoReturn
            /\ UNCHANGED <<enabledProviders, pollingIntervals, runningTimers, pollsInFlight>>
       ELSE /\ StartPolling(id)
            /\ EnableResolved(id, IF PollingSupported(id)
                                  THEN Append(enableCall[id].steps, "startPolling")
                                  ELSE enableCall[id].steps)
  /\ lastDelivery' = NoDelivery
  /\ UNCHANGED <<providers, providerSubscriptions, dataCallbacks, registerCall, disableCall,
                 cleanupAll, activeStreams, nextHandle, calls>>
  /\ UNCHANGED <<healthData, refreshCall>>
  /\ UNCHANGED <<mergeVars, incrementalVars, keyVars>>

\* variant: polling is started although the stream start failed
EnableStreamSettledPollsAnyway(id) ==
  /\ enableCall[id].pc = "onData"
  /\ \E outcome \in Outcomes :
       /\ StartPolling(id)
       /\ IF outcome = "ok"
          THEN /\ StoreSubscription(id)
               /\ EnableResolved(id, Append(enableCall[id].steps, "startPolling"))
          ELSE /\ EnableRejected(id, EnableError("onData", outcome),
                                 Append(enableCall[id].steps, "startPolling"),
                                 SourceError("onData", outcome))
               /\ UNCHANGED <<providerSubscriptions, activeStreams, nextHandle>>
  /\ lastDelivery' = NoDelivery
  /\ UNCHANGED <<providers, dataCallbacks, registerCall, disableCall, cleanupAll, calls>>
  /\ UNCHANGED <<healthData, refreshCall>>
  /\ UNCHANGED <<mergeVars, incrementalVars, keyVars>>

\* variant: the handle is stored although onData has failed
EnableStreamSettledStoresAnyway(id) ==
  /\ enableCall[id].pc = "onData"
  /\ \E outcome \in Outcomes :
       IF outcome = "ok"
       THEN /\ StoreSubscription(id)
            /\ StartPolling(id)
            /\ EnableResolved(id, IF PollingSupported(id)
                                  THEN Append(enableCall[id].steps, "startPolling")
                                  ELSE enableCall[id].steps)
       ELSE /\ EnableRejected(id, EnableError("onData", outcome), enableCall[id].steps,
                            SourceError("onData", outcome))
            /\ StoreSubscription(id)
            /\ UNCHANGED <<pollingIntervals, runningTimers, pollsInFlight>>
  /\ lastDelivery' = NoDelivery
  /\ UNCHANGED <<providers, dataCallbacks, registerCall, disableCall, cleanupAll, calls>>
  /\ UNCHANGED <<healthData, refreshCall>>
  /\ UNCHANGED <<mergeVars, incrementalVars, keyVars>>

\* await this.initializeProviderStream(provider, queryStartDate) settles;
\* on success the handle is stored, polling is started (if supported) and
\* enableProvider returns
EnableStreamSettled(id) ==
  /\ enableCall[id].pc = "onData"
  /\ \E outcome \in Outcomes :
       IF outcome = "ok"
       THEN /\ StoreSubscription(id)
            /\ StartPolling(id)
            /\ EnableResolved(id, IF PollingSupported(id)
                                  THEN Append(enableCall[id].steps, "startPolling")
                                  ELSE enableCall[id].steps)
       ELSE /\ EnableRejected(id, EnableError("onData", outcome), enableCall[id].steps,
                            SourceError("onData", outcome))
            /\ UNCHANGED <<providerSubscriptions, activeStreams, nextHandle,
                           pollingIntervals, runningTimers, pollsInFlight>>
  /\ lastDelivery' = NoDelivery
  /\ UNCHANGED <<providers, dataCallbacks, registerCall, disableCall, cleanupAll, calls>>
  /\ UNCHANGED <<healthData, refreshCall>>
  /\ UNCHANGED <<mergeVars, incrementalVars, keyVars>>

\* ------------------------------------------------------------------------
\* toggleProvider(provider, false) -> disableProvider
\* ------------------------------------------------------------------------
EmptyMap == [k \in {} |-> 0]

\* this.providerSubscriptions.delete(id)
DeleteSubscription(subscriptions, id) ==
  [k \in DOMAIN subscriptions \ {id} |-> subscriptions[k]]

\* enabledProviders.filter(p => p !== id), dataCallbacks.delete(callback)
RECURSIVE WithoutId(_, _)
WithoutId(ids, id) ==
  IF ids = <<>> THEN <<>>
  ELSE IF ids[1] = id THEN WithoutId(Tail(ids), id)
  ELSE <<ids[1]>> \o WithoutId(Tail(ids), id)

\* toggleProvider once disableProvider has resolved: the id leaves the
\* enabled-set; when it throws the enabled-set is left alone. steps are the
\* calls of the cleanup handle and of cleanUp that disableProvider made
DisableResolved(id, steps) ==
  /\ enabledProviders' = WithoutId(enabledProviders, id)
  /\ disableCall' = [disableCall EXCEPT ![id] = IdleDisable]
  /\ returned' = Return("disable", id, NoError, steps)

DisableRejected(id, error, cause) ==
  /\ UNCHANGED enabledProviders
  /\ disableCall' = [disableCall EXCEPT ![id] = IdleDisable]
  /\ returned' = Rethrown("disable", id, error, disableCall[id].steps, cause)

\* variant: without a stored handle disableProvider returns after stopping
\* the timers and does not call cleanUp
DisableProviderSkipsCleanUp(id) ==
  /\ calls < MaxCalls
  /\ disableCall[id].pc = "idle"
  /\ calls' = calls + 1
  /\ IF id \in DOMAIN providerSubscriptions
     THEN /\ disableCall' = [disableCall EXCEPT ![id] =
               [pc |-> "cleanup", handle |-> providerSubscriptions[id],
                steps |-> <<"cleanup">>, duringEnable |-> enableCall[id].pc # "idle"]]
          /\ returned' = NoReturn
          /\ UNCHANGED <<pollingIntervals, runningTimers, enabledProviders>>
     ELSE /\ pollingIntervals' = StopPolling(pollingIntervals, id)
          /\ runningTimers' = ClearIntervals(runningTimers, StoppedKeys(pollingIntervals, id))
          /\ DisableResolved(id, <<>>)
  /\ lastDelivery' = NoDelivery
  /\ UNCHANGED <<providers, providerSubscriptions, dataCallbacks, registerCall, enableCall,
                 cleanupAll, pollsInFlight, activeStreams, nextHandle>>
  /\ UNCHANGED <<healthData, refreshCall>>
  /\ UNCHANGED <<mergeVars, incrementalVars, keyVars>>

\* disableProvider up to its first await: the stored cleanup handle is
\* invoked if there is one, else the timers are stopped and cleanUp is called
DisableProvider(id) ==
  /\ calls < MaxCalls
  /\ disableCall[id].pc = "idle"
  /\ calls' = calls + 1
  /\ IF id \in DOMAIN providerSubscriptions
     THEN /\ disableCall' = [disableCall EXCEPT ![id] =
               [pc |-> "cleanup", handle |-> providerSubscriptions[id],
                steps |-> <<"cleanup">>, duringEnable |-> enableCall[id].pc # "idle"]]
          /\ returned' = NoReturn
          /\ UNCHANGED <<pollingIntervals, runningTimers, enabledProviders>>
     ELSE /\ pollingIntervals' = StopPolling(pollingIntervals, id)
          /\ runningTimers' = ClearIntervals(runningTimers, StoppedKeys(pollingIntervals, id))
          /\ IF IsRegistered(id)
             THEN /\ disableCall' = [disableCall EXCEPT ![id] =
                       [pc |-> "cleanUp", handle |-> 0, steps |-> <<"cleanUp">>,
                        duringEnable |-> enableCall[id].pc # "idle"]]
                  /\ returned' = NoReturn
                  /\ UNCHANGED enabledProviders
             ELSE DisableResolved(id, <<>>)
  /\ lastDelivery' = NoDelivery
  /\ UNCHANGED <<providers, providerSubscriptions, dataCallbacks, registerCall, enableCall,
                 cleanupAll, pollsInFlight, activeStreams, nextHandle>>
  /\ UNCHANGED <<healthData, refreshCall>>
  /\ UNCHANGED <<mergeVars, incrementalVars, keyVars>>

\* await cleanup() settles: on success the handle is deleted, the timers are
\* stopped and cleanUp is called; on failure disableProvider throws the
\* typed error or CLEANUP_ERROR
DisableCleanupSettled(id) ==
  /\ disableCall[id].pc = "cleanup"
  /\ \E outcome \in Outcomes :
       IF outcome = "ok"
       THEN /\ activeStreams' = activeStreams \ {<<id, disableCall[id].handle>>}
            /\ providerSubscriptions' = DeleteSubscription(providerSubscriptions, id)
            /\ pollingIntervals' = StopPolling(pollingIntervals, id)
            /\ runningTimers' = ClearIntervals(runningTimers, StoppedKeys(pollingIntervals, id))
            /\ IF IsRegistered(id)
               THEN /\ disableCall' = [disableCall EXCEPT ![id] =
                         [@ EXCEPT !.pc = "cleanUp", !.steps = Append(@, "cleanUp")]]
                    /\ returned' = NoReturn
                    /\ UNCHANGED enabledProviders
               ELSE DisableResolved(id, disableCall[id].steps)
       ELSE /\ DisableRejected(id, "CLEANUP_ERROR", SourceError("cleanup", outcome))
            /\ UNCHANGED <<activeStreams, providerSubscriptions, pollingIntervals, runningTimers>>
  /\ lastDelivery' = NoDelivery
  /\ UNCHANGED <<providers, dataCallbacks, registerCall, enableCall, cleanupAll,
                 pollsInFlight, nextHandle, calls>>
  /\ UNCHANGED <<healthData, refreshCall>>
  /\ UNCHANGED <<mergeVars, incrementalVars, keyVars>>

\* await provider?.cleanUp() settles; its error leaves disableProvider as it is
DisableCleanUpSettled(id) ==
  /\ disableCall[id].pc = "cleanUp"
  /\ \E outcome \in Outcomes :
       IF outcome = "ok" THEN DisableResolved(id, disableCall[id].steps)
       ELSE DisableRejected(id, SourceError("cleanUp", outcome), SourceError("cleanUp", outcome))
  /\ lastDelivery' = NoDelivery
  /\ UNCHANGED <<providers, providerSubscriptions, dataCallbacks, pollingIntervals, runningTimers,
                 registerCall, enableCall, cleanupAll, pollsInFlight, activeStreams,
                 nextHandle, calls>>
  /\ UNCHANGED <<healthData, refreshCall>>
  /\ UNCHANGED <<mergeVars, incrementalVars, keyVars>>

\* ------------------------------------------------------------------------
\* polling
\* ------------------------------------------------------------------------
\* the providers of the enabled-set that are registered
RECURSIVE RegisteredAmong(_)
RegisteredAmong(ids) ==
  IF ids = <<>> THEN {}
  ELSE (IF IsRegistered(ids[1]) THEN {ids[1]} ELSE {}) \cup RegisteredAmong(Tail(ids))

\* startPollingEnabledProviders(startDate)
StartPollingEnabledProviders ==
  /\ calls < MaxCalls
  /\ calls' = calls + 1
  /\ LET started == {id \in RegisteredAmong(enabledProviders) : PollingSupported(id)}
         keys == UNION {PollingKeys(id) : id \in started}
     IN /\ pollingIntervals' =
             {key \in pollingIntervals : \A id \in started : ~KeyOfProvider(key, id)} \cup keys
        /\ runningTimers' =
             SetIntervals(ClearIntervals(runningTimers,
                                         UNION {StoppedKeys(pollingIntervals, id) : id \in started}),
                          keys)
        /\ pollsInFlight' = pollsInFlight \cup keys
  /\ lastDelivery' = NoDelivery
  /\ returned' = NoReturn
  /\ UNCHANGED <<providers, providerSubscriptions, dataCallbacks, enabledProviders,
                 registerCall, enableCall, disableCall, cleanupAll, activeStreams,
                 nextHandle>>
  /\ UNCHANGED <<healthData, refreshCall>>
  /\ UNCHANGED <<mergeVars, incrementalVars, keyVars>>

\* a timer fires: pollData calls provider.getData(metric, startDate, now)
PollTick(id, metric) ==
  /\ runningTimers[<<id, metric>>] > 0
  /\ <<id, metric>> \notin pollsInFlight
  /\ pollsInFlight' = pollsInFlight \cup {<<id, metric>>}
  /\ lastDelivery' = NoDelivery
  /\ returned' = NoReturn
  /\ UNCHANGED <<providers, providerSubscriptions, dataCallbacks, pollingIntervals, runningTimers,
                 enabledProviders, registerCall, enableCall, disableCall, cleanupAll,
                 activeStreams, nextHandle, calls>>
  /\ UNCHANGED <<healthData, refreshCall>>
  /\ UNCHANGED <<mergeVars, incrementalVars, keyVars>>

\* variant: a pollData whose getData rejected clears and deletes its timer
PollSettledStopsOnError(id, metric) ==
  /\ <<id, metric>> \in pollsInFlight
  /\ pollsInFlight' = pollsInFlight \ {<<id, metric>>}
  /\ \E outcome \in Outcomes, value \in SampleValues(id) :
       CASE outcome = "ok" /\ HasValidData(value) ->
              /\ NotifyCallbacks("poll", id, metric, value)
              /\ returned' = IF lastDelivery'.path # "none" /\ lastDelivery'.error
                             THEN Return("pollData", id, "POLLING_ERROR", <<>>)
                             ELSE Return("pollData", id, NoError, <<>>)
         [] outcome = "ok" /\ ~HasValidData(value) ->
              /\ lastDelivery' = NoDelivery
              /\ returned' = Return("pollData", id, NoError, <<>>)
              /\ UNCHANGED healthData
         [] outcome = "typed" ->
              /\ lastDelivery' = NoDelivery
              /\ returned' = Rethrown("pollData", id, "DATA_FETCH_ERROR", <<>>,
                                      SourceError("getData", outcome))
              /\ UNCHANGED healthData
         [] outcome = "untyped" ->
              /\ lastDelivery' = NoDelivery
              /\ returned' = Rethrown("pollData", id, "POLLING_ERROR", <<>>,
                                      SourceError("getData", outcome))
              /\ UNCHANGED healthData
  /\ IF returned'.error = NoError
     THEN UNCHANGED <<pollingIntervals, runningTimers>>
     ELSE /\ pollingIntervals' = pollingIntervals \ {<<id, metric>>}
          /\ runningTimers' = ClearIntervals(runningTimers, pollingIntervals \cap {<<id, metric>>})
  /\ UNCHANGED <<providers, providerSubscriptions, dataCallbacks,
                 enabledProviders, registerCall, enableCall, disableCall, cleanupAll,
                 activeStreams, nextHandle, calls>>
  /\ UNCHANGED refreshCall
  /\ UNCHANGED <<mergeVars, incrementalVars, keyVars>>

\* variant: a pollData that settles sets its timer again if it was stopped
PollSettledSetsTimer(id, metric) ==
  /\ <<id, metric>> \in pollsInFlight
  /\ pollsInFlight' = pollsInFlight \ {<<id, metric>>}
  /\ \E outcome \in Outcomes, value \in SampleValues(id) :
       CASE outcome = "ok" /\ HasValidData(value) ->
              /\ NotifyCallbacks("poll", id, metric, value)
              /\ returned' = IF lastDelivery'.path # "none" /\ lastDelivery'.error
                             THEN Return("pollData", id, "POLLING_ERROR", <<>>)
                             ELSE Return("pollData", id, NoError, <<>>)
         [] outcome = "ok" /\ ~HasValidData(value) ->
              /\ lastDelivery' = NoDelivery
              /\ returned' = Return("pollData", id, NoError, <<>>)
              /\ UNCHANGED healthData
         [] outcome = "typed" ->
              /\ lastDelivery' = NoDelivery
              /\ returned' = Rethrown("pollData", id, "DATA_FETCH_ERROR", <<>>,
                                      SourceError("getData", outcome))
              /\ UNCHANGED healthData
         [] outcome = "untyped" ->
              /\ lastDelivery' = NoDelivery
              /\ returned' = Rethrown("pollData", id, "POLLING_ERROR", <<>>,
                                      SourceError("getData", outcome))
              /\ UNCHANGED healthData
  /\ pollingIntervals' = pollingIntervals \cup {<<id, metric>>}
  /\ runningTimers' = IF <<id, metric>> \in pollingIntervals THEN runningTimers
                      ELSE SetIntervals(runningTimers, {<<id, metric>>})
  /\ UNCHANGED <<providers, providerSubscriptions, dataCallbacks,
                 enabledProviders, registerCall, enableCall, disableCall, cleanupAll,
                 activeStreams, nextHandle, calls>>
  /\ UNCHANGED refreshCall
  /\ UNCHANGED <<mergeVars, incrementalVars, keyVars>>

\* await provider.getData(..) of a pollData settles: valid data is passed to
\* the listeners; an error (of getData, or thrown by a listener) is
\* rethrown (typed) or wrapped as POLLING_ERROR
PollSettled(id, metric) ==
  /\ <<id, metric>> \in pollsInFlight
  /\ pollsInFlight' = pollsInFlight \ {<<id, metric>>}
  /\ \E outcome \in Outcomes, value \in SampleValues(id) :
       CASE outcome = "ok" /\ HasValidData(value) ->
              /\ NotifyCallbacks("poll", id, metric, value)
              /\ returned' = IF lastDelivery'.path # "none" /\ lastDelivery'.error
                             THEN Return("pollData", id, "POLLING_ERROR", <<>>)
                             ELSE Return("pollData", id, NoError, <<>>)
         [] outcome = "ok" /\ ~HasValidData(value) ->
              /\ lastDelivery' = NoDelivery
              /\ returned' = Return("pollData", id, NoError, <<>>)
              /\ UNCHANGED healthData
         [] outcome = "typed" ->
              /\ lastDelivery' = NoDelivery
              /\ returned' = Rethrown("pollData", id, "DATA_FETCH_ERROR", <<>>,
                                      SourceError("getData", outcome))
              /\ UNCHANGED healthData
         [] outcome = "untyped" ->
              /\ lastDelivery' = NoDelivery
              /\ returned' = Rethrown("pollData", id, "POLLING_ERROR", <<>>,
                                      SourceError("getData", outcome))
              /\ UNCHANGED healthData
  /\ UNCHANGED <<providers, providerSubscriptions, dataCallbacks, pollingIntervals, runningTimers,
                 enabledProviders, registerCall, enableCall, disableCall, cleanupAll,
                 activeStreams, nextHandle, calls>>
  /\ UNCHANGED refreshCall
  /\ UNCHANGED <<mergeVars, incrementalVars, keyVars>>

\* ------------------------------------------------------------------------
\* realtime
\* ------------------------------------------------------------------------
\* a source with a live subscription calls the callback that
\* initializeProviderStream gave to onData
RealtimePush(id, metric) ==
  /\ \E h \in 1..nextHandle : <<id, h>> \in activeStreams
  /\ metric \in SupportedMetrics(id)
  /\ \E value \in SampleValues(id) : NotifyCallbacks("realtime", id, metric, value)
  /\ returned' = NoReturn
  /\ UNCHANGED <<providers, providerSubscriptions, dataCallbacks, pollingIntervals, runningTimers,
                 enabledProviders, registerCall, enableCall, disableCall, cleanupAll,
                 pollsInFlight, activeStreams, nextHandle, calls>>
  /\ UNCHANGED refreshCall
  /\ UNCHANGED <<mergeVars, incrementalVars, keyVars>>

\* ------------------------------------------------------------------------
\* listeners and cleanupAllSubscriptions
\* ------------------------------------------------------------------------
IdleCleanup == [pc |-> "idle", current |-> "none", handle |-> 0, visited |-> {}, by |-> "none"]

\* cleanupAllSubscriptions reaches the next value of the map: its cleanup
\* is invoked and awaited; behind the last one the map is cleared (by is
\* the caller of cleanupAllSubscriptions)
CleanupAllAdvance(visited, by) ==
  LET rest == DOMAIN providerSubscriptions \ visited IN
  IF rest = {}
  THEN /\ providerSubscriptions' = EmptyMap
       /\ cleanupAll' = IdleCleanup
  ELSE LET k == CHOOSE k \in rest : TRUE IN
       /\ cleanupAll' = [pc |-> "awaiting", current |-> k,
                         handle |-> providerSubscriptions[k], visited |-> visited \cup {k},
                         by |-> by]
       /\ UNCHANGED providerSubscriptions

\* variant: the callback is put in front of the listeners
SubscribeInFront(l) ==
  /\ calls < MaxCalls
  /\ \A i \in 1..Len(dataCallbacks) : dataCallbacks[i] # l
  /\ calls' = calls + 1
  /\ dataCallbacks' = <<l>> \o dataCallbacks
  /\ lastDelivery' = NoDelivery
  /\ returned' = NoReturn
  /\ UNCHANGED <<providers, providerSubscriptions, pollingIntervals, runningTimers, enabledProviders,
                 registerCall, enableCall, disableCall, cleanupAll, pollsInFlight,
                 activeStreams, nextHandle>>
  /\ UNCHANGED <<healthData, refreshCall>>
  /\ UNCHANGED <<mergeVars, incrementalVars, keyVars>>

\* subscribeToProviderUpdates(callback)
Subscribe(l) ==
  /\ calls < MaxCalls
  /\ \A i \in 1..Len(dataCallbacks) : dataCallbacks[i] # l
  /\ calls' = calls + 1
  /\ dataCallbacks' = Append(dataCallbacks, l)
  /\ lastDelivery' = NoDelivery
  /\ returned' = NoReturn
  /\ UNCHANGED <<providers, providerSubscriptions, pollingIntervals, runningTimers, enabledProviders,
                 registerCall, enableCall, disableCall, cleanupAll, pollsInFlight,
                 activeStreams, nextHandle>>
  /\ UNCHANGED <<healthData, refreshCall>>
  /\ UNCHANGED <<mergeVars, incrementalVars, keyVars>>

\* variant: the callback is left in the set of listeners
UnsubscribeKeepsCallback(l) ==
  /\ calls < MaxCalls
  /\ \E i \in 1..Len(dataCallbacks) : dataCallbacks[i] = l
  /\ cleanupAll.pc = "idle"
  /\ calls' = calls + 1
  /\ UNCHANGED <<dataCallbacks, providerSubscriptions, cleanupAll>>
  /\ lastDelivery' = NoDelivery
  /\ returned' = Return("unsubscribe", l, NoError, <<>>)
  /\ UNCHANGED <<providers, pollingIntervals, runningTimers, enabledProviders, registerCall, enableCall,
                 disableCall, pollsInFlight, activeStreams, nextHandle>>
  /\ UNCHANGED <<healthData, refreshCall>>
  /\ UNCHANGED <<mergeVars, incrementalVars, keyVars>>

\* the function returned by subscribeToProviderUpdates; with the last
\* listener gone cleanupAllSubscriptions is started
Unsubscribe(l) ==
  /\ calls < MaxCalls
  /\ \E i \in 1..Len(dataCallbacks) : dataCallbacks[i] = l
  /\ cleanupAll.pc = "idle"
  /\ calls' = calls + 1
  /\ dataCallbacks' = WithoutId(dataCallbacks, l)
  /\ IF Len(dataCallbacks) = 1
     THEN CleanupAllAdvance({}, "unsubscribe")
     ELSE UNCHANGED <<providerSubscriptions, cleanupAll>>
  /\ lastDelivery' = NoDelivery
  /\ returned' = Return("unsubscribe", l, NoError, <<>>)
  /\ UNCHANGED <<providers, pollingIntervals, runningTimers, enabledProviders, registerCall, enableCall,
                 disableCall, pollsInFlight, activeStreams, nextHandle>>
  /\ UNCHANGED <<healthData, refreshCall>>
  /\ UNCHANGED <<mergeVars, incrementalVars, keyVars>>

\* await cleanup() in cleanupAllSubscriptions settles: the loop goes on, or
\* CLEANUP_ERROR is thrown and the map is left as it is
CleanupAllSettled ==
  /\ cleanupAll.pc = "awaiting"
  /\ \E outcome \in Outcomes :
       IF outcome = "ok"
       THEN /\ activeStreams' = activeStreams \ {<<cleanupAll.current, cleanupAll.handle>>}
            /\ CleanupAllAdvance(cleanupAll.visited, cleanupAll.by)
            /\ returned' = IF cleanupAll'.pc = "idle"
                           THEN Return("cleanupAllSubscriptions", "none", NoError, <<>>)
                           ELSE NoReturn
       ELSE /\ cleanupAll' = IdleCleanup
            /\ returned' = Return("cleanupAllSubscriptions", "none", "CLEANUP_ERROR", <<>>)
            /\ UNCHANGED <<activeStreams, providerSubscriptions>>
  /\ lastDelivery' = NoDelivery
  /\ UNCHANGED <<providers, dataCallbacks, pollingIntervals, runningTimers, enabledProviders, registerCall,
                 enableCall, disableCall, pollsInFlight, nextHandle, calls>>
  /\ UNCHANGED <<healthData, refreshCall>>
  /\ UNCHANGED <<mergeVars, incrementalVars, keyVars>>

\* finalize()
Finalize ==
  /\ calls < MaxCalls
  /\ cleanupAll.pc = "idle"
  /\ calls' = calls + 1
  /\ CleanupAllAdvance({}, "finalize")
  /\ pollingIntervals' = {}
  /\ runningTimers' = ClearIntervals(runningTimers, pollingIntervals)
  /\ lastDelivery' = NoDelivery
  /\ returned' = NoReturn
  /\ UNCHANGED <<providers, dataCallbacks, enabledProviders, registerCall, enableCall,
                 disableCall, pollsInFlight, activeStreams, nextHandle>>
  /\ UNCHANGED <<healthData, refreshCall>>
  /\ UNCHANGED <<mergeVars, incrementalVars, keyVars>>

\* ------------------------------------------------------------------------
\* refreshData -> syncHealthData -> consolidateHealthMetrics
\* ------------------------------------------------------------------------
\* what the getData calls of the consolidation of one metric can resolve
\* with: a value per provider of the metric (the others are not asked)
FetchesFor(metric) ==
  {fetched \in [ProviderIds -> UNION {SampleValues(id) : id \in ProviderIds}] :
     \A id \in ProviderIds :
       fetched[id] \in (IF id \in Range(GetProvidersForMetric(metric))
                        THEN SampleValues(id) ELSE {<<>>})}

\* THIRTY_DAYS_MS, in ticks of the clock
THIRTY_DAYS_MS == 1

\* useCycles(): the cycleBegin dates of the cycles, oldest first
CycleLists == {<<>>, <<0 - 3, 0 - 2>>}

\* new Date(): the clock advances with every call of the application
Now == calls

\* startDay of refreshData: the begin of the second last cycle, or thirty
\* days before today
StartDay(cycles, today) ==
  IF Len(cycles) >= 2
  THEN NewDate(cycles[Len(cycles) - 1])
  ELSE NewDate(today - THIRTY_DAYS_MS)

\* variant: the failed sync reports the time it started
SyncHealthDataStampsFailure(data, thrown, lastSync, now) ==
  IF thrown = NoError
  THEN [error |-> NoError, isLoading |-> FALSE, healthData |-> data, lastSync |-> now]
  ELSE [error |-> thrown, isLoading |-> FALSE, healthData |-> NoHealthData,
        lastSync |-> now]

\* what syncHealthData returns: data is what consolidateHealthMetrics
\* returned, thrown the error it threw (NoError: none, error: null), now
\* the Date taken before the consolidation
SyncHealthData(data, thrown, lastSync, now) ==
  IF thrown = NoError
  THEN [error |-> NoError, isLoading |-> FALSE, healthData |-> data, lastSync |-> now]
  ELSE [error |-> thrown, isLoading |-> FALSE, healthData |-> NoHealthData,
        lastSync |-> lastSync]

\* what the call of syncHealthData was given and returned
SyncReturn(ret, lastSync, now, result) ==
  [op |-> ret.op, id |-> ret.id, error |-> ret.error, steps |-> ret.steps,
   cause |-> ret.cause, lastSync |-> lastSync, now |-> now, result |-> result]

\* refreshData up to the first await of the consolidation: syncHealthData
\* takes the time. (Of HealthState$ the model keeps healthData, so setting
\* isLoading leaves no trace; startDay has no effect before
\* syncHealthData returns; the list of cycles it is computed from is drawn
\* where the call settles.)
RefreshData ==
  /\ calls < MaxCalls
  /\ refreshCall.pc = "idle"
  /\ calls' = calls + 1
  /\ refreshCall' = [pc |-> "syncing", now |-> Now]
  /\ lastDelivery' = NoDelivery
  /\ returned' = NoReturn
  /\ UNCHANGED healthData
  /\ UNCHANGED <<providers, providerSubscriptions, dataCallbacks, pollingIntervals, runningTimers,
                 enabledProviders, registerCall, enableCall, disableCall, cleanupAll,
                 pollsInFlight, activeStreams, nextHandle>>
  /\ UNCHANGED <<mergeVars, incrementalVars, keyVars>>

\* the orders in which the array HEALTH_METRICS can hold the metrics
MetricOrders == {order \in [1..Cardinality(HealthMetrics) -> HealthMetrics] :
                   Range(order) = HealthMetrics}

\* the metrics among the first n of order whose merged list is not empty,
\* points[m] being the merged list of m
RECURSIVE WithPoints(_, _, _)
WithPoints(order, n, points) ==
  IF n = 0 THEN <<>>
  ELSE WithPoints(order, n - 1, points)
         \o (IF Len(points[order[n]]) > 0 THEN <<order[n]>> ELSE <<>>)

\* what syncHealthData returns when the loop over order throws (fails[i]:
\* the consolidation of order[i] throws): no data; consolidated lists the
\* metrics that had been put into the result before the throw
SyncResult(order, fails, r) ==
  LET first == CHOOSE i \in DOMAIN order : fails[i] /\ \A j \in 1..(i - 1) : ~fails[j]
      points == [m \in HealthMetrics |-> IF r.healthData[m].present
                                         THEN r.healthData[m].value ELSE <<>>]
  IN [healthData |-> NoHealthData, consolidated |-> WithPoints(order, first - 1, points)]

\* the getData calls of the consolidation have settled: syncHealthData
\* returns the consolidated data, or no data with the error message, and
\* refreshData stores what it returned. (The providers of a metric are
\* read when the loop reaches the metric.) A getData that rejects is the
\* one of the metric failing; the loop throws at the first metric of order
\* whose fetch or merge throws, and the call then logs the failing metric
\* and the metrics consolidated before it.
RefreshSettled ==
  /\ refreshCall.pc = "syncing"
  /\ \E outcome \in Outcomes, sleep \in FetchesFor("sleep"),
        illness \in FetchesFor("illness"), stress \in FetchesFor("stress") :
       LET fetched == [m \in HealthMetrics |->
                         CASE m = "sleep" -> sleep
                           [] m = "illness" -> illness
                           [] m = "stress" -> stress]
       IN
       \E r \in {ConsolidateHealthMetrics(HEALTH_METRICS, fetched)},
          mergeThrows \in {[m \in HealthMetrics |-> ConsolidateMetric(m, fetched[m]).error]} :
         IF outcome = "ok" /\ ~r.error
         THEN \E cycles \in CycleLists :
                LET startDay == StartDay(cycles, refreshCall.now)
                    result == SyncHealthData(r.healthData, NoError, startDay, refreshCall.now)
                IN /\ healthData' = result.healthData
                   /\ returned' = SyncReturn(Return("syncHealthData", "none", result.error, <<>>),
                                             startDay, refreshCall.now, result)
         ELSE \E order \in MetricOrders, failing \in HEALTH_METRICS :
                /\ IF outcome = "ok" THEN failing = order[1]
                   ELSE GetProvidersForMetric(failing) # <<>>
                /\ LET fails == [i \in DOMAIN order |->
                                   \/ outcome # "ok" /\ order[i] = failing
                                   \/ mergeThrows[order[i]]]
                       first == CHOOSE i \in DOMAIN order :
                                  fails[i] /\ \A j \in 1..(i - 1) : ~fails[j]
                       s == SyncResult(order, fails, r)
                       thrown == IF outcome # "ok" /\ order[first] = failing
                                 THEN "DATA_FETCH_ERROR" ELSE PriorityError
                   IN
                   \E cycles \in CycleLists :
                     LET startDay == StartDay(cycles, refreshCall.now)
                         result == SyncHealthData(s.healthData, thrown, startDay,
                                                  refreshCall.now)
                     IN
                     /\ healthData' = result.healthData
                     /\ returned' =
                          SyncReturn(IF outcome # "ok" /\ order[first] = failing
                                     THEN Rethrown("syncHealthData", order[first],
                                                   result.error, s.consolidated,
                                                   SourceError("getData", outcome))
                                     ELSE Return("syncHealthData", order[first], result.error,
                                                 s.consolidated),
                                     startDay, refreshCall.now, result)
  /\ refreshCall' = [pc |-> "idle", now |-> 0]
  /\ lastDelivery' = NoDelivery
  /\ UNCHANGED <<providers, providerSubscriptions, dataCallbacks, pollingIntervals, runningTimers,
                 enabledProviders, registerCall, enableCall, disableCall, cleanupAll,
                 pollsInFlight, activeStreams, nextHandle, calls>>
  /\ UNCHANGED <<mergeVars, incrementalVars, keyVars>>

\* ------------------------------------------------------------------------
\* Spec: the manager from its construction on
\* ------------------------------------------------------------------------
\* new HealthProviderManager(): the maps are empty and registerProvider has
\* been called for each of the three providers
ManagerInit ==
  /\ providers = <<>>
  /\ providerSubscriptions = EmptyMap
  /\ dataCallbacks = <<>>
  /\ pollingIntervals = {}
  /\ runningTimers = [key \in TimerKeys |-> 0]
  /\ enabledProviders = <<>>
  /\ registerCall = [id \in ProviderIds |-> "isAvailable"]
  /\ enableCall = [id \in ProviderIds |-> IdleCall]
  /\ disableCall = [id \in ProviderIds |-> IdleDisable]
  /\ cleanupAll = IdleCleanup
  /\ pollsInFlight = {}
  /\ activeStreams = {}
  /\ nextHandle = 1
  /\ lastDelivery = NoDelivery
  /\ returned = NoReturn
  /\ calls = 0

\* HealthState$ at the first start, no refreshData under way
HealthInit ==
  /\ healthData = InitialHealthData
  /\ refreshCall = [pc |-> "idle", now |-> 0]

\* no window is being consolidated
IncrementalIdle ==
  /\ reported = [id \in ProviderIds |-> <<>>]
  /\ incMetric = "sleep"
  /\ boundary = 0
  /\ incPc = "input"

Init == MergeInit /\ ManagerInit /\ HealthInit /\ IncrementalIdle /\ KeysIdle

Next ==
  \/ \E id \in ProviderIds : RegisterProvider(id)
  \/ \E id \in ProviderIds : RegisterAvailabilitySettled(id)
  \/ \E id \in ProviderIds : RegisterStreamSettled(id)
  \/ \E id \in ProviderIds : EnableProvider(id)
  \/ \E id \in ProviderIds : EnableInitSettled(id)
  \/ \E id \in ProviderIds : EnablePermissionsSettled(id)
  \/ \E id \in ProviderIds : EnableStreamSettled(id)
  \/ \E id \in ProviderIds : DisableProvider(id)
  \/ \E id \in ProviderIds : DisableCleanupSettled(id)
  \/ \E id \in ProviderIds : DisableCleanUpSettled(id)
  \/ StartPollingEnabledProviders
  \/ \E id \in ProviderIds, metric \in HealthMetrics : PollTick(id, metric)
  \/ \E id \in ProviderIds, metric \in HealthMetrics : PollSettled(id, metric)
  \/ \E id \in ProviderIds, metric \in HealthMetrics : RealtimePush(id, metric)
  \/ \E l \in Listeners : Subscribe(l)
  \/ \E l \in Listeners : Unsubscribe(l)
  \/ CleanupAllSettled
  \/ Finalize
  \/ RefreshData
  \/ RefreshSettled

Spec == Init /\ [][Next]_vars

\* ------------------------------------------------------------------------
\* SpecIncremental: consolidation of a first window, then the incremental
\* merge of the second one
\* ------------------------------------------------------------------------
\* orders in which the three registrations can have settled
RegistrationOrders ==
  {order \in [1..3 -> ProviderIds] : \A i, j \in 1..3 : i # j => order[i] # order[j]}

\* The manager after the three providers were registered, then enabled in
\* that order, one listener subscribed and the first polls settled: Apple's
\* handle of the registration was replaced by the handle of the enable.
AllEnabled ==
  /\ providers \in RegistrationOrders
  /\ enabledProviders = providers
  /\ providerSubscriptions = [id \in {"apple-health"} |-> 2]
  /\ activeStreams = {<<"apple-health", 1>>, <<"apple-health", 2>>}
  /\ nextHandle = 3
  /\ pollingIntervals = UNION {PollingKeys(id) : id \in ProviderIds}
  /\ runningTimers = [key \in TimerKeys |->
                        IF key \in UNION {PollingKeys(id) : id \in ProviderIds} THEN 1 ELSE 0]
  /\ pollsInFlight = {}
  /\ dataCallbacks = <<"listener1">>
  /\ registerCall = [id \in ProviderIds |-> "settled"]
  /\ enableCall = [id \in ProviderIds |-> IdleCall]
  /\ disableCall = [id \in ProviderIds |-> IdleDisable]
  /\ cleanupAll = IdleCleanup
  /\ lastDelivery = NoDelivery
  /\ returned = NoReturn
  /\ calls = 4

\* end of the second window
WindowEnd == MaxTime + 1

\* provider.getData(metric, startDate, endDate) on the points that the
\* source holds: a point is reported in the window that holds its start
InWindow(points, startDate, endDate) ==
  SelectSeq(points, LAMBDA p : startDate <= p.start /\ p.start < endDate)

\* what the getData calls of consolidateHealthMetrics(HEALTH_METRICS,
\* startDate, endDate) resolve with
FetchedIn(startDate, endDate) ==
  [m \in HealthMetrics |->
     [id \in ProviderIds |->
        IF m = incMetric THEN InWindow(reported[id], startDate, endDate) ELSE <<>>]]

\* R1 and R2 as consolidateHealthMetrics collects them
FirstWindow == CollectAll(GetProvidersForMetric(incMetric), FetchedIn(0, boundary)[incMetric])
SecondWindow ==
  CollectAll(GetProvidersForMetric(incMetric), FetchedIn(boundary, WindowEnd)[incMetric])

\* number of points that the sources hold
ReportedCount == Len(reported["apple-health"]) + Len(reported["google-health"])
                   + Len(reported["fitbit"])

\* a source records one more point of the metric
ReportPoint(id) ==
  /\ incPc = "input"
  /\ ReportedCount < MaxReported
  /\ incMetric \in SupportedMetrics(id)
  /\ \E p \in DataPoints :
       /\ p.source = id
       /\ reported' = [reported EXCEPT ![id] = Append(@, p)]
  /\ UNCHANGED <<incMetric, boundary, incPc>>
  /\ UNCHANGED <<mergeVars, managerVars, healthVars, keyVars>>

\* refreshData over the first window: syncHealthData returns the result of
\* consolidateHealthMetrics(HEALTH_METRICS, 0, boundary), which is stored
ConsolidateFirst ==
  /\ incPc = "input"
  /\ incPc' = "consolidated"
  /\ healthData' = ConsolidateHealthMetrics(HEALTH_METRICS, FetchedIn(0, boundary)).healthData
  /\ UNCHANGED <<reported, incMetric, boundary, refreshCall>>
  /\ UNCHANGED <<mergeVars, managerVars, keyVars>>

\* the listener is called with the sample that holds the points of the
\* second window: mergeMetricData(healthData[metric], newData) is stored
MergeIncoming ==
  /\ incPc = "consolidated"
  /\ incPc' = "merged"
  /\ healthData' = OnHealthUpdate(healthData, incMetric, Sample(SecondWindow)).healthData
  /\ UNCHANGED <<reported, incMetric, boundary, refreshCall>>
  /\ UNCHANGED <<mergeVars, managerVars, keyVars>>

IncrementalInit ==
  /\ reported = [id \in ProviderIds |-> <<>>]
  /\ incMetric \in {"sleep", "illness"}
  /\ boundary \in 0..WindowEnd
  /\ incPc = "input"

IncrementalNext ==
  \/ \E id \in ProviderIds : ReportPoint(id)
  \/ ConsolidateFirst
  \/ MergeIncoming

InitIncremental == MergeInit /\ AllEnabled /\ HealthInit /\ IncrementalInit /\ KeysIdle

SpecIncremental == InitIncremental /\ [][IncrementalNext]_vars

\* a merge run is looked at with the manager and the health state as
\* constructed
InitMerge == MergeInit /\ ManagerInit /\ HealthInit /\ IncrementalIdle /\ KeysIdle

SpecMerge == InitMerge /\ [][MergeNext]_vars

InitKeys == MergeInit /\ ManagerInit /\ HealthInit /\ IncrementalIdle /\ KeysInit

SpecKeys == InitKeys /\ [][KeysNext]_vars

\* the manager some time after its construction: the hook has subscribed
\* its first listener, the registrations of google-health and fitbit have
\* settled, that of apple-health is still awaiting isAvailable
ManagerListening ==
  /\ providers = <<"google-health", "fitbit">>
  /\ providerSubscriptions = EmptyMap
  /\ dataCallbacks = <<"listener1">>
  /\ pollingIntervals = {}
  /\ runningTimers = [key \in TimerKeys |-> 0]
  /\ enabledProviders = <<>>
  /\ registerCall = [id \in ProviderIds |->
                       IF id = "apple-health" THEN "isAvailable" ELSE "settled"]
  /\ enableCall = [id \in ProviderIds |-> IdleCall]
  /\ disableCall = [id \in ProviderIds |-> IdleDisable]
  /\ cleanupAll = IdleCleanup
  /\ pollsInFlight = {}
  /\ activeStreams = {}
  /\ nextHandle = 1
  /\ lastDelivery = NoDelivery
  /\ returned = NoReturn
  /\ calls = 0

InitListening == MergeInit /\ ManagerListening /\ HealthInit /\ IncrementalIdle /\ KeysIdle

SpecListening == InitListening /\ [][Next]_vars

\* ========================================================================
\* Properties
\* ========================================================================
\* the overlap relation of the timeline: touching endpoints count
Intersect(a, b) == a.start <= b.end /\ a.end >= b.start

KnownSource(p) == p.source \in DOMAIN providerPriorities

\* index of the first entry of the output list that the processed point
\* overlaps, 0 if there is none
FirstHit ==
  IF \E i \in 1..Len(merged) : Intersect(sortedPoints[pointIdx], merged[i])
  THEN CHOOSE i \in 1..Len(merged) :
         /\ Intersect(sortedPoints[pointIdx], merged[i])
         /\ \A j \in 1..(i - 1) : ~Intersect(sortedPoints[pointIdx], merged[j])
  ELSE 0

\* C1: Non-overlap. The list built by the merge never holds two distinct
\* entries whose intervals overlap (touching endpoints count), so the list
\* it returns is overlap-free, and at every step of the loop at most one
\* entry of the output list overlaps the point being processed.
C1_NonOverlap ==
  /\ \A i, j \in 1..Len(merged) : i # j => ~Intersect(merged[i], merged[j])
  /\ (mergePc = "loop" /\ pointIdx <= Len(sortedPoints)) =>
       Cardinality({i \in 1..Len(merged) : Intersect(sortedPoints[pointIdx], merged[i])}) <= 1

\* a merge of three points from known sources returned two entries: one
\* input point lost against an overlapping one, the third overlaps neither
C1_Witness ==
  /\ mergePc = "done"
  /\ Len(dataPoints) = 3
  /\ Len(merged) = 2
  /\ \A i \in 1..3 : KnownSource(dataPoints[i])

\* the point of an overlapping pair that the priority rule names: the one
\* of strictly greater priority, on equal priority the one with the earlier
\* start, on equal start the one earlier in the input (i < j)
PairWinner(i, j) ==
  LET p == dataPoints[i]
      q == dataPoints[j]
  IN IF Priority(p.source) > Priority(q.source) THEN p
     ELSE IF Priority(q.source) > Priority(p.source) THEN q
     ELSE IF q.start < p.start THEN q
     ELSE p

\* C2 as stated: for every pair of overlapping input points the returned
\* list retains the point that the priority rule names.
C2_AllPairs ==
  (mergePc = "done" /\ \A i \in 1..Len(dataPoints) : KnownSource(dataPoints[i])) =>
    \A i, j \in 1..Len(dataPoints) :
      (i < j /\ Intersect(dataPoints[i], dataPoints[j])) => PairWinner(i, j) \in Range(merged)

\* C2 (amended): Priority correctness per comparison. Whenever the loop
\* processes a point p that overlaps an entry e of the output list (both
\* from known sources), e does not start after p, and after the step the
\* list holds p in e's position if p's source has strictly greater priority
\* and is unchanged otherwise (ties keep e).
C2_StepPriority ==
  [][(mergePc = "loop" /\ pointIdx <= Len(sortedPoints) /\ FirstHit # 0
        /\ KnownSource(sortedPoints[pointIdx]) /\ KnownSource(merged[FirstHit])) =>
       LET p == sortedPoints[pointIdx]
           e == merged[FirstHit]
       IN /\ e.start <= p.start
          /\ mergePc' # "error"
          /\ merged' = IF Priority(p.source) > Priority(e.source)
                       THEN [merged EXCEPT ![FirstHit] = p]
                       ELSE merged]_vars

\* a finished merge in which a later point of greater priority took the
\* position of the first sorted point, and another point was dropped
C2_Witness ==
  /\ mergePc = "done"
  /\ Len(sortedPoints) = 3
  /\ Len(merged) = 1
  /\ merged[1] # sortedPoints[1]
  /\ Priority(merged[1].source) > Priority(sortedPoints[1].source)

\* C4: Idempotence. For every list S returned by the merge whose sources
\* are all in the priority lookup, merging S ++ S returns exactly S.
C4_Idempotent ==
  (mergePc = "done" /\ \A i \in 1..Len(merged) : KnownSource(merged[i])) =>
    MergeDataPoints(merged \o merged, providerPriorities) = [merged |-> merged, error |-> FALSE]

\* a returned list of two entries, one of zero length, after a replacement
C4_Witness ==
  /\ mergePc = "done"
  /\ Len(merged) = 2
  /\ Len(dataPoints) = 3
  /\ \A i \in 1..Len(merged) : KnownSource(merged[i])
  /\ \E i \in 1..Len(merged) : merged[i].start = merged[i].end

\* C7: Two-point conflict resolution. Two overlapping input points from
\* known sources (contained, partially overlapping or touching) merge to
\* exactly one point: the one of strictly greater priority whatever their
\* order in the input; on equal priority the one with the earlier start, on
\* equal start the one earlier in the input.
C7_TwoPoints ==
  (mergePc = "done" /\ Len(dataPoints) = 2
     /\ KnownSource(dataPoints[1]) /\ KnownSource(dataPoints[2])
     /\ Intersect(dataPoints[1], dataPoints[2])) =>
    merged = <<PairWinner(1, 2)>>

\* the touching case with the greater priority collected first and
\* starting later: the second input point ends where the first starts
C7_Witness ==
  /\ mergePc = "done"
  /\ Len(dataPoints) = 2
  /\ dataPoints[2].end = dataPoints[1].start
  /\ dataPoints[2].start < dataPoints[1].start
  /\ KnownSource(dataPoints[1]) /\ KnownSource(dataPoints[2])
  /\ Priority(dataPoints[1].source) > Priority(dataPoints[2].source)
  /\ merged = <<dataPoints[1]>>

\* C8 as stated: a merge whose input contains a point of a source absent
\* from the priority lookup returns no list.
C8_AnyUnknownSource ==
  mergePc = "done" => \A i \in 1..Len(dataPoints) : KnownSource(dataPoints[i])

\* C8 (amended): PRIORITY_ERROR is raised exactly when the processed point
\* overlaps an entry of the output list and the source of either of the two
\* is absent from the priority lookup; the run then merges no further
\* point and returns no list.
C8_ErrorOnComparison ==
  [][/\ (mergePc = "loop" /\ pointIdx <= Len(sortedPoints)) =>
          (mergePc' = "error" <=>
             (FirstHit # 0 /\ (~KnownSource(sortedPoints[pointIdx])
                                 \/ ~KnownSource(merged[FirstHit]))))
     /\ mergePc' = "error" => (merged' = merged /\ pointIdx' = pointIdx)
     /\ mergePc = "error" => UNCHANGED vars]_vars

\* the run stopped at the second sorted point, with a third one unmerged
C8_Witness ==
  /\ mergePc = "error"
  /\ pointIdx = 2
  /\ Len(sortedPoints) = 3
  /\ Len(merged) = 1

\* ------------------------------------------------------------------------
\* Incremental merge (SpecIncremental)
\* ------------------------------------------------------------------------
\* the point sequence of one bulk consolidation over both windows
BulkOverBoth == ConsolidateHealthMetrics(HEALTH_METRICS, FetchedIn(0, WindowEnd)).healthData[incMetric]

\* C3 as stated: for any points R1 of the first window and R2 of the second,
\* mergeMetricData(sample of consolidating R1, sample holding R2) has the
\* point sequence of one bulk consolidation over both windows.
C3_IncrementalEquivalence ==
  incPc = "merged" => healthData[incMetric].value = BulkOverBoth.value

\* C3 (amended): Incremental equivalence when the first window is not
\* empty. If consolidating R1 put a sample of the metric into the result
\* (R1 holds a point), each point is reported in the window that holds its
\* start, and the new sample holds R2 in the order the consolidation
\* collects it, then mergeMetricData(that sample, sample holding R2) returns
\* a sample with the point sequence of one bulk consolidation over both.
C3_IncrementalAfterSample ==
  (incPc = "merged" /\ FirstWindow # <<>>) =>
    /\ healthData[incMetric].present
    /\ BulkOverBoth.present
    /\ healthData[incMetric].value = BulkOverBoth.value

\* a point of the second window took the position of the point of the
\* first window that it overlaps
C3_Witness ==
  /\ incPc = "merged"
  /\ Len(FirstWindow) = 1
  /\ Len(SecondWindow) = 1
  /\ Overlaps(SecondWindow[1], FirstWindow[1])
  /\ healthData[incMetric].value = SecondWindow

\* ------------------------------------------------------------------------
\* Delivery and lifecycle (Spec)
\* ------------------------------------------------------------------------
\* C5 as stated: Empty-input rule. A poll tick never calls the listeners
\* with a sample without points, the result that a consolidation returns
\* holds no sample without points, and the sample that mergeMetricData
\* returned to a listener is never without points.
C5_EmptyInputRule ==
  /\ lastDelivery.path = "poll" => lastDelivery.value # <<>>
  /\ (returned.op = "syncHealthData" /\ returned.error = NoError) =>
       \A m \in HealthMetrics : healthData[m].present => healthData[m].value # <<>>
  /\ (lastDelivery.path # "none" /\ ~lastDelivery.error) =>
       /\ healthData[lastDelivery.metric].present
       /\ healthData[lastDelivery.metric].value # <<>>

\* C6 as stated: on the poll path and on the realtime path no listener is
\* called with a sample without points.
C6_NoEmptyDelivery ==
  lastDelivery.path # "none" => lastDelivery.value # <<>>

\* the steps of enableProvider on a registered provider, in order
ExpectedSteps(id) ==
  <<"init", "requestPermissions">>
    \o (IF RealtimeSupported(id) THEN <<"onData">> ELSE <<>>)
    \o (IF PollingSupported(id) THEN <<"startPolling">> ELSE <<>>)

IsPrefix(s, t) == Len(s) <= Len(t) /\ s = SubSeq(t, 1, Len(s))

\* C9: enable of an id that is not in the registry. A step in which
\* enableProvider is called with an id that the provider map has no entry
\* for throws PROVIDER_NOT_FOUND, has called no method of a source, and
\* leaves the provider map, the handle map, the timers, the listeners (and
\* the subscriptions and polls of the sources) as they were.
C9_EnableUnknown ==
  [][\A id \in ProviderIds :
       (/\ ~IsRegistered(id)
        /\ calls' = calls + 1
        /\ \/ enableCall'[id] # enableCall[id]
           \/ (returned'.op = "enable" /\ returned'.id = id)) =>
         /\ returned' = Return("enable", id, "PROVIDER_NOT_FOUND", <<>>)
         /\ enableCall'[id] = IdleCall
         /\ UNCHANGED <<providers, providerSubscriptions, pollingIntervals, dataCallbacks,
                        enabledProviders, activeStreams, pollsInFlight>>]_vars

\* enable of google-health failed with PROVIDER_NOT_FOUND while apple-health
\* is registered and holds a realtime handle
C9_Witness ==
  /\ returned = Return("enable", "google-health", "PROVIDER_NOT_FOUND", <<>>)
  /\ IsRegistered("apple-health")
  /\ "apple-health" \in DOMAIN providerSubscriptions

\* C10: order of the steps of enable. The calls that an enableProvider on
\* a registered provider has made are at any time a prefix of init,
\* requestPermissions, onData (if realtime is supported), startPolling (if
\* polling is supported); a step is begun only in the step that settles
\* the one before it successfully; the call resolves only after all of
\* them; and a step of the call in which it does not resolve (a step
\* failed, or the next one is awaited) creates no timer and starts no poll.
C10_EnableOrder ==
  [][\A id \in ProviderIds :
       /\ IsPrefix(enableCall'[id].steps, ExpectedSteps(id))
       /\ (enableCall'[id].steps # enableCall[id].steps /\ enableCall'[id].pc # "idle") =>
            /\ Len(enableCall'[id].steps) = Len(enableCall[id].steps) + 1
            /\ IsPrefix(enableCall[id].steps, enableCall'[id].steps)
       /\ (returned'.op = "enable" /\ returned'.id = id) =>
            /\ IsPrefix(returned'.steps, ExpectedSteps(id))
            /\ IsPrefix(enableCall[id].steps, returned'.steps)
            /\ returned'.error = NoError => returned'.steps = ExpectedSteps(id)
            /\ returned'.error # NoError =>
                 /\ returned'.steps = enableCall[id].steps
                 /\ returned'.steps # ExpectedSteps(id)
       /\ (/\ enableCall'[id] # enableCall[id] \/ (returned'.op = "enable" /\ returned'.id = id)
           /\ ~(returned'.op = "enable" /\ returned'.id = id /\ returned'.error = NoError)) =>
            UNCHANGED <<pollingIntervals, pollsInFlight>>]_vars

\* enable of apple-health resolved after its four steps, with its timers set
C10_Witness ==
  /\ returned = Return("enable", "apple-health", NoError,
                       <<"init", "requestPermissions", "onData", "startPolling">>)
  /\ PollingKeys("apple-health") \subseteq pollingIntervals
  /\ IsEnabled("apple-health")

\* C11: error of a failed enable. A step in which enableProvider throws
\* because init, requestPermissions or the stream start of the source
\* rejected hands the caller an error: the typed error of the source as it
\* was raised, or PROVIDER_INIT_FAILED when init or requestPermissions
\* rejected with an error that is not typed.
C11_EnableErrorKind ==
  [][\A id \in ProviderIds :
       (returned'.op = "enable" /\ returned'.id = id /\ returned'.cause # NoError) =>
         /\ enableCall[id].pc \in {"init", "requestPermissions", "onData"}
         /\ returned'.error # NoError
         /\ returned'.cause # "Error" => returned'.error = returned'.cause
         /\ (returned'.cause = "Error" /\ enableCall[id].pc \in {"init", "requestPermissions"}) =>
              returned'.error = "PROVIDER_INIT_FAILED"]_vars

\* enable of google-health failed in requestPermissions with the typed
\* error of the source
C11_Witness ==
  /\ returned = Rethrown("enable", "google-health", "PERMISSION_DENIED",
                         <<"init", "requestPermissions">>, "PERMISSION_DENIED")
  /\ ~IsEnabled("google-health")

\* a timer of the provider is in the timer map
HasTimer(timers, id) == \E key \in timers : KeyOfProvider(key, id)

\* C12: disable is best-effort. A step in which disableProvider throws
\* because the stored cleanup handle of the provider rejected throws
\* CLEANUP_ERROR, and the call has all the same removed every timer of the
\* provider from the timer map and called cleanUp of the provider.
C12_DisableBestEffort ==
  [][\A id \in ProviderIds :
       (/\ disableCall[id].pc = "cleanup"
        /\ returned'.op = "disable" /\ returned'.id = id
        /\ returned'.error # NoError) =>
         /\ returned'.error = "CLEANUP_ERROR"
         /\ ~HasTimer(pollingIntervals', id)
         /\ IsRegistered(id) => "cleanUp" \in Range(returned'.steps)]_vars

\* the provider is registered and in the state of one that was never
\* enabled: not in the enabled-set, no enableProvider of it under way, no
\* timer of it in the timer map
NeverEnabled(id) ==
  /\ IsRegistered(id)
  /\ ~IsEnabled(id)
  /\ enableCall[id].pc = "idle"
  /\ ~HasTimer(pollingIntervals, id)

\* the step is one of disableProvider(id): the call, or one of its awaits
\* settling
DisableActs(id) ==
  \/ disableCall'[id] # disableCall[id]
  \/ (returned'.op = "disable" /\ returned'.id = id)

\* how often the call is in the log of a disableProvider
Count(steps, call) == Cardinality({i \in 1..Len(steps) : steps[i] = call})

\* C13 as stated: disable of a registered provider that was never enabled
\* invokes cleanUp exactly once and nothing else, raises no error, and
\* changes none of the maps of the manager.
C13_DisableIsNoOp ==
  [][\A id \in ProviderIds :
       (NeverEnabled(id) /\ DisableActs(id)) =>
         /\ UNCHANGED <<pollingIntervals, pollsInFlight, providers, providerSubscriptions,
                        activeStreams, enabledProviders, dataCallbacks>>
         /\ (returned'.op = "disable" /\ returned'.id = id) =>
              /\ returned'.error = NoError
              /\ returned'.steps = <<"cleanUp">>]_vars

\* C13, amended: disable of a registered provider in the state of one that
\* was never enabled touches no timer and no poll and changes neither the
\* provider map nor the enabled-set nor the listeners. Without a stored
\* cleanup handle it calls cleanUp and nothing else, changes no map at all,
\* and throws only what cleanUp rejected with. With a handle stored by the
\* registration it invokes the handle first; a call that resolves has
\* called cleanUp exactly once, and cleanUp is never called twice.
C13_DisableNeverEnabled ==
  [][\A id \in ProviderIds :
       (NeverEnabled(id) /\ DisableActs(id)) =>
         /\ UNCHANGED <<pollingIntervals, pollsInFlight, providers, enabledProviders,
                        dataCallbacks>>
         /\ (disableCall[id].pc = "idle" /\ id \notin DOMAIN providerSubscriptions) =>
              /\ disableCall'[id] = [pc |-> "cleanUp", handle |-> 0, steps |-> <<"cleanUp">>,
                                     duringEnable |-> FALSE]
              /\ returned' = NoReturn
         /\ (disableCall[id].pc = "idle" /\ id \in DOMAIN providerSubscriptions) =>
              disableCall'[id].steps = <<"cleanup">>
         /\ disableCall[id].steps = <<"cleanUp">> =>
              /\ UNCHANGED <<providerSubscriptions, activeStreams>>
              /\ returned'.op = "disable" /\ returned'.id = id
              /\ returned'.steps = <<"cleanUp">>
         /\ (returned'.op = "disable" /\ returned'.id = id) =>
              /\ Count(returned'.steps, "cleanUp") <= 1
              /\ returned'.error = NoError => Count(returned'.steps, "cleanUp") = 1]_vars

\* disable of google-health, which was never enabled, has resolved after
\* one call of cleanUp while the timers of apple-health are set
C13_Witness ==
  /\ returned = Return("disable", "google-health", NoError, <<"cleanUp">>)
  /\ NeverEnabled("google-health")
  /\ PollingKeys("apple-health") \subseteq pollingIntervals

\* the step settles the isAvailable of a registerProvider whose id the
\* provider map already has
DuplicateRegisterSettles(id) ==
  /\ IsRegistered(id)
  /\ registerCall[id] = "isAvailable"
  /\ registerCall'[id] # "isAvailable"

\* the provider map holds every id at most once
NoDuplicateIds(ids) == \A i, j \in 1..Len(ids) : ids[i] = ids[j] => i = j

C15_RegisterUnavailable ==
  [][\A id \in ProviderIds :
       (/\ returned'.op = "register" /\ returned'.id = id
        /\ returned'.steps = <<"isAvailable:false">>) =>
         /\ returned'.error = NoError
         /\ registerCall'[id] = "settled"
         /\ UNCHANGED <<providers, providerSubscriptions, activeStreams, nextHandle,
                        pollingIntervals, pollsInFlight, dataCallbacks, enabledProviders>>
         /\ ~IsRegistered(id) => id \notin Range(GetAllProviders')]_vars

\* registerProvider of apple-health returned because HealthKit is not
\* available: apple-health is not registered and has no stream
C15_Witness ==
  /\ returned = Return("register", "apple-health", NoError, <<"isAvailable:false">>)
  /\ ~IsRegistered("apple-health")
  /\ "apple-health" \notin Range(GetAllProviders)
  /\ "apple-health" \notin DOMAIN providerSubscriptions
  /\ IsRegistered("fitbit")

\* the handle stored under the id belongs to a subscription that is active
StreamStored(subscriptions, streams, id) ==
  /\ id \in DOMAIN subscriptions
  /\ <<id, subscriptions[id]>> \in streams

\* C16: the stream of a registered realtime source. A registerProvider of
\* a source with realtime support that returns without error, the source
\* being available, has started the stream: in the state it returns in, a
\* subscription of the source is active and its handle is stored under the
\* id, the enabled-set playing no part (it is not read and not changed).
C16_StreamAfterRegister ==
  [][\A id \in ProviderIds :
       (/\ RealtimeSupported(id)
        /\ returned'.op = "register" /\ returned'.id = id
        /\ returned'.error = NoError
        /\ returned'.steps # <<"isAvailable:false">>) =>
         /\ returned'.steps = <<"onData">>
         /\ IsRegistered(id)'
         /\ StreamStored(providerSubscriptions', activeStreams', id)
         /\ UNCHANGED enabledProviders]_vars

\* apple-health is registered and was never enabled (the one call made so
\* far has subscribed the listener); a change that HealthKit reported was
\* delivered to the listener
C16_Witness ==
  /\ lastDelivery.path = "realtime"
  /\ lastDelivery.source = "apple-health"
  /\ lastDelivery.listeners # <<>>
  /\ StreamStored(providerSubscriptions, activeStreams, "apple-health")
  /\ enabledProviders = <<>>
  /\ \A id \in ProviderIds : enableCall[id] = IdleCall
  /\ calls = 1

\* the place of a registered id in the provider map (the order of
\* registration)
PositionOf(id) == CHOOSE i \in 1..Len(providers) : providers[i] = id

\* C17: getProvidersForMetric. In every state and for every metric the
\* result holds each registered provider that supports the metric and is
\* in the enabled-set once, and no other; priorities do not rise along the
\* result, and of two providers of equal priority the one registered
\* first comes first.
C17_ProvidersForMetric ==
  \A metric \in HealthMetrics :
    LET result == GetProvidersForMetric(metric) IN
    /\ Range(result) = {id \in ProviderIds :
                          IsRegistered(id) /\ metric \in SupportedMetrics(id) /\ IsEnabled(id)}
    /\ \A i, j \in 1..Len(result) :
         i < j =>
           /\ result[i] # result[j]
           /\ Priority(result[i]) >= Priority(result[j])
           /\ Priority(result[i]) = Priority(result[j]) =>
                PositionOf(result[i]) < PositionOf(result[j])

\* google-health was registered before apple-health, both are enabled and
\* have the same priority: google-health comes first for sleep
C17_Witness ==
  /\ providers = <<"fitbit", "google-health", "apple-health">>
  /\ Priority("google-health") = Priority("apple-health")
  /\ IsEnabled("google-health") /\ IsEnabled("apple-health")
  /\ ~IsEnabled("fitbit")
  /\ GetProvidersForMetric("sleep") = <<"google-health", "apple-health">>

\* C18: timer invariant. In every state the timer map has the key of a
\* provider and a metric exactly if a repeating timer made for that pair
\* is running (so a key that left the map had its timer cleared and no
\* running timer is without its key), and never more than one timer is
\* running for a pair.
C18_TimerInvariant ==
  /\ pollingIntervals \subseteq TimerKeys
  /\ \A key \in TimerKeys :
       /\ key \in pollingIntervals <=> runningTimers[key] > 0
       /\ runningTimers[key] <= 1

\* the second enableProvider of apple-health has resolved and restarted
\* the two timers that the first one had set
C18_Witness ==
  /\ returned = Return("enable", "apple-health", NoError,
                       <<"init", "requestPermissions", "onData", "startPolling">>)
  /\ enabledProviders = <<"apple-health", "apple-health">>
  /\ pollingIntervals = PollingKeys("apple-health")
  /\ \A key \in PollingKeys("apple-health") : runningTimers[key] = 1

\* the provider that the timer of an entry was set for
OwnerOf(entry) == entry.interval[1]

\* C19: stopPollingForProvider(id) touches the timers of id and no others.
\* After a step of stopPollingForProvider(id) no timer of id is in the map
\* or running; every entry of another provider, whatever the two ids, is
\* still in the map and its timer still running; and with no timer of id
\* in the map the step changes nothing.
C19_StopOnlyOwnTimers ==
  [][lastPollingOp'.op = "stop" =>
       LET id == lastPollingOp'.id IN
       /\ \A entry \in intervalEntries' : OwnerOf(entry) # id
       /\ \A interval \in liveIntervals' : interval[1] # id
       /\ \A entry \in intervalEntries :
            OwnerOf(entry) # id =>
              /\ entry \in intervalEntries'
              /\ entry.interval \in liveIntervals'
       /\ (\A entry \in intervalEntries : OwnerOf(entry) # id) =>
            UNCHANGED <<intervalEntries, liveIntervals>>]_vars

\* no call of the manager is under way
Quiescent ==
  /\ \A id \in ProviderIds :
       /\ registerCall[id] = "settled"
       /\ enableCall[id].pc = "idle"
       /\ disableCall[id].pc = "idle"
  /\ cleanupAll.pc = "idle"

\* C20: realtime-handle invariant. Whenever no call of the manager is
\* under way, a cleanup handle is stored under an id exactly if a
\* subscription that a resolved onData of that source made is still
\* active, and every active subscription is the one whose handle is
\* stored under the id of its source.
C20_HandleInvariant ==
  Quiescent =>
    /\ \A id \in ProviderIds :
         id \in DOMAIN providerSubscriptions <=>
           \E h \in 1..nextHandle : <<id, h>> \in activeStreams
    /\ \A stream \in activeStreams :
         StreamStored(providerSubscriptions, activeStreams, stream[1])
           /\ providerSubscriptions[stream[1]] = stream[2]

\* the keys whose pollData settles in the step
PollsSettling == pollsInFlight \ pollsInFlight'

\* C21: a failing poll tick leaves its timer. A step in which a pollData
\* throws (the typed error of getData, or POLLING_ERROR) leaves the timer
\* map and the running timers as they were, and when the timer of the pair
\* was running it still runs and no poll of the pair is in flight, so that
\* the timer can fire again.
C21_FailedTickKeepsTimer ==
  [][(returned'.op = "pollData" /\ returned'.error # NoError) =>
       /\ UNCHANGED <<pollingIntervals, runningTimers>>
       /\ PollsSettling # {}
       /\ \A key \in PollsSettling :
            /\ key[1] = returned'.id
            /\ runningTimers[key] > 0 =>
                 /\ key \in pollingIntervals'
                 /\ runningTimers'[key] = 1
                 /\ key \notin pollsInFlight']_vars

\* a pollData of fitbit has thrown POLLING_ERROR and its timer is in the
\* map and running
C21_Witness ==
  /\ returned = Rethrown("pollData", "fitbit", "POLLING_ERROR", <<>>, "Error")
  /\ <<"fitbit", "sleep">> \in pollingIntervals
  /\ runningTimers[<<"fitbit", "sleep">>] = 1
  /\ <<"fitbit", "sleep">> \notin pollsInFlight

C23_AllListenersCalled ==
  lastDelivery.path # "none" => lastDelivery.listeners = dataCallbacks

CleanupAllEnds ==
  /\ cleanupAll'.pc = "idle"
  /\ \/ (cleanupAll.pc = "awaiting" /\ cleanupAll.by = "unsubscribe")
     \/ (cleanupAll.pc = "idle" /\ returned'.op = "unsubscribe" /\ dataCallbacks' = <<>>)

\* the subscriptions whose handle is stored
StoredStreams(subscriptions) == {<<id, subscriptions[id]>> : id \in DOMAIN subscriptions}

\* C25: teardown with the last listener. An unsubscribe that leaves other
\* listeners registered invokes no handle and leaves the handle map and
\* the subscriptions alone. The unsubscribe of the last listener starts
\* cleanupAllSubscriptions, and when that ends no subscription whose
\* handle was stored is still active and the handle map is empty.
C25_TeardownWithLastListener ==
  [][/\ (returned'.op = "unsubscribe" /\ dataCallbacks' # <<>>) =>
          UNCHANGED <<providerSubscriptions, activeStreams, cleanupAll>>
     /\ (returned'.op = "unsubscribe" /\ dataCallbacks' = <<>>
           /\ providerSubscriptions # EmptyMap) =>
          cleanupAll'.pc = "awaiting"
     /\ CleanupAllEnds =>
          /\ providerSubscriptions' = EmptyMap
          /\ StoredStreams(providerSubscriptions) \cap activeStreams' = {}]_vars

\* C26: teardown in spite of a failing handle. A cleanupAllSubscriptions
\* that throws throws CLEANUP_ERROR, and it has then invoked every stored
\* handle and cleared the handle map all the same.
C26_TeardownDespiteFailure ==
  [][(returned'.op = "cleanupAllSubscriptions" /\ returned'.error # NoError) =>
       /\ returned'.error = "CLEANUP_ERROR"
       /\ cleanupAll.visited = DOMAIN providerSubscriptions
       /\ providerSubscriptions' = EmptyMap]_vars

\* C27: one failing metric does not abort the others. When syncHealthData
\* returns an error because the consolidation of one metric threw (a fetch
\* error or PRIORITY_ERROR), every metric that the same call had already
\* consolidated with points is in the data that refreshData stores.
C27_OtherMetricsConsolidated ==
  [][(returned'.op = "syncHealthData" /\ returned'.error # NoError) =>
       \A i \in DOMAIN returned'.steps : healthData'[returned'.steps[i]].present]_vars

\* the step settles the onData call that registerProvider or enableProvider
\* of id awaits, with a failure
StreamStartFails(id) ==
  /\ \/ registerCall[id] = "onData" /\ returned'.op = "register"
     \/ enableCall[id].pc = "onData" /\ returned'.op = "enable"
  /\ returned'.id = id
  /\ returned'.error # NoError

\* C28: a failing stream start stays local. When onData fails for a source,
\* no handle is stored and no subscription made, the timers of the other
\* sources are left alone, and an enableProvider of a source that supports
\* polling has started the polling for it all the same.
C28_StreamFailureIsLocal ==
  [][\A id \in ProviderIds :
       StreamStartFails(id) =>
         /\ UNCHANGED <<providerSubscriptions, activeStreams>>
         /\ StopPolling(pollingIntervals', id) = StopPolling(pollingIntervals, id)
         /\ (returned'.op = "enable" /\ PollingSupported(id)) =>
              /\ PollingKeys(id) \subseteq pollingIntervals'
              /\ \A key \in PollingKeys(id) : runningTimers'[key] > 0]_vars

\* C28 as amended: a failing stream start aborts the call it belongs to.
\* When onData fails for a source, no handle is stored and no subscription
\* made, no timer is set or cleared and no poll started, for this source
\* or another; the registerProvider or enableProvider that awaited it
\* throws SUBSCRIPTION_ERROR.
C28_StreamFailureAborts ==
  [][\A id \in ProviderIds :
       StreamStartFails(id) =>
         /\ UNCHANGED <<providerSubscriptions, activeStreams, nextHandle>>
         /\ UNCHANGED <<pollingIntervals, runningTimers, pollsInFlight>>
         /\ UNCHANGED <<providers, enabledProviders, dataCallbacks>>
         /\ returned'.error = "SUBSCRIPTION_ERROR"]_vars

\* google-health is polled, and the enableProvider of apple-health has
\* thrown because onData failed: no handle, no timer of apple-health
C28_Witness ==
  /\ returned.op = "enable"
  /\ returned.id = "apple-health"
  /\ returned.steps = <<"init", "requestPermissions", "onData">>
  /\ returned.error = "SUBSCRIPTION_ERROR"
  /\ providerSubscriptions = EmptyMap
  /\ pollingIntervals = PollingKeys("google-health")

\* the step settles a pollData of id
PollSettles(id) == returned'.op = "pollData" /\ returned'.id = id

\* C29: a poll in flight at disable is ignored. A pollData of a source that
\* settles while the source is not in the enabled-set (its disable has
\* returned and it was not enabled again) notifies no listener, and no
\* settling pollData changes the timer map or the handle map.
C29_PollIgnoredAfterDisable ==
  [][\A id \in ProviderIds :
       PollSettles(id) =>
         /\ ~IsEnabled(id) => lastDelivery'.path = "none"
         /\ UNCHANGED <<pollingIntervals, providerSubscriptions>>]_vars

\* C29 as amended: a poll in flight at disable completes like any other.
\* A settling pollData of a source, enabled or not, changes neither the
\* timer map, the timers, the handle map, the subscriptions nor the
\* enabled-set; what it delivers is a valid sample of that source, to the
\* listeners registered at that moment in their order.
C29_InFlightPollCompletes ==
  [][\A id \in ProviderIds :
       PollSettles(id) =>
         /\ UNCHANGED <<pollingIntervals, runningTimers, providerSubscriptions,
                        activeStreams, enabledProviders, providers>>
         /\ lastDelivery'.path # "none" =>
              /\ lastDelivery'.path = "poll"
              /\ lastDelivery'.source = id
              /\ HasValidData(lastDelivery'.value)
              /\ lastDelivery'.listeners # <<>>
              /\ lastDelivery'.listeners =
                   SubSeq(dataCallbacks, 1, Len(lastDelivery'.listeners))
         /\ lastDelivery'.path = "none" => UNCHANGED healthData]_vars

\* google-health was disabled while its poll of sleep was in flight: it is
\* out of the enabled-set and has no timer, and listener1 has just been
\* given the polled sample
C29_Witness ==
  /\ ~IsEnabled("google-health")
  /\ ~HasTimer(pollingIntervals, "google-health")
  /\ disableCall["google-health"].pc = "idle"
  /\ returned.op = "pollData" /\ returned.id = "google-health"
  /\ lastDelivery.path = "poll"
  /\ lastDelivery.source = "google-health"
  /\ lastDelivery.listeners = <<"listener1">>

\* C30: who writes the enabled-set. A step changes the enabled-set only by
\* appending the id of an enableProvider that has just resolved or by
\* removing the id of a disableProvider that has just resolved; a resolved
\* enable or disable does make its change, and one that throws leaves the
\* enabled-set as it is. No other step of the manager changes it.
C30_EnabledSetWrites ==
  [][/\ enabledProviders' # enabledProviders =>
          /\ returned'.op \in {"enable", "disable"}
          /\ returned'.error = NoError
     /\ (returned'.op = "enable" /\ returned'.error = NoError) =>
          enabledProviders' = Append(enabledProviders, returned'.id)
     /\ (returned'.op = "disable" /\ returned'.error = NoError) =>
          enabledProviders' = WithoutId(enabledProviders, returned'.id)
     /\ (returned'.op \in {"enable", "disable"} /\ returned'.error # NoError) =>
          UNCHANGED enabledProviders]_vars

\* google-health was enabled and is in the enabled-set; the enableProvider
\* of apple-health has just thrown and the enabled-set holds google-health
\* alone
C30_Witness ==
  /\ enabledProviders = <<"google-health">>
  /\ returned.op = "enable"
  /\ returned.id = "apple-health"
  /\ returned.error # NoError

\* the operations of the error propagation policy, and the kinds that an
\* untyped error of a source is wrapped into
PolicyOperations == {"register", "enable", "disable", "pollData", "syncHealthData"}

WrappingKinds == {"PROVIDER_INIT_FAILED", "SUBSCRIPTION_ERROR", "CLEANUP_ERROR",
                  "POLLING_ERROR", "DATA_FETCH_ERROR"}

\* C31: error propagation policy. Whenever register, enable, disable, a
\* poll or the bulk consolidation ends with an error that a call on a
\* source raised, the caller gets the source's error itself if that was
\* typed, and one of the wrapping kinds if it was not; never the untyped
\* error.
C31_ErrorPolicy ==
  (returned.op \in PolicyOperations /\ returned.cause # NoError) =>
    /\ returned.error # "Error"
    /\ returned.cause # "Error" => returned.error = returned.cause
    /\ returned.cause = "Error" => returned.error \in WrappingKinds

\* the step is the unsubscribe of the last listener
LastUnsubscribe == returned'.op = "unsubscribe" /\ dataCallbacks' = <<>>

\* C32: handle lifecycle. A timer is put into the timer map and a cleanup
\* handle into the handle map only by a step of enableProvider, and the
\* step in which the last listener unsubscribes leaves no timer in the
\* timer map.
C32_HandleLifecycle ==
  [][/\ pollingIntervals' \ pollingIntervals # {} => returned'.op = "enable"
     /\ StoredStreams(providerSubscriptions') \ StoredStreams(providerSubscriptions) # {} =>
          returned'.op = "enable"
     /\ LastUnsubscribe => pollingIntervals' = {}]_vars

\* the step ends a disableProvider of id that was called while an
\* enableProvider of id was under way: it resolves, and that enableProvider
\* has ended too
BothCompleted(id) ==
  /\ disableCall[id].pc # "idle"
  /\ disableCall[id].duringEnable
  /\ disableCall'[id].pc = "idle"
  /\ returned'.error = NoError
  /\ enableCall'[id].pc = "idle"

\* C33: disable after enable wins. When a disableProvider that was called
\* during an enableProvider of the same provider resolves, and the
\* enableProvider has ended as well, no timer of the provider is in the
\* timer map and no cleanup handle of it in the handle map.
C33_DisableAfterEnable ==
  [][\A id \in ProviderIds :
       BothCompleted(id) =>
         /\ ~HasTimer(pollingIntervals', id)
         /\ id \notin DOMAIN providerSubscriptions']_vars

\* the cleanup handle that onData gave for id is being awaited by
\* disableProvider and by cleanupAllSubscriptions at once
InvokedTwice(id) ==
  /\ disableCall[id].pc = "cleanup"
  /\ cleanupAll.pc = "awaiting"
  /\ cleanupAll.current = id
  /\ cleanupAll.handle = disableCall[id].handle

\* C34: a cleanup handle is invoked at most once. No handle is ever under
\* way in two invocations, one made by disableProvider and one made by the
\* cleanupAllSubscriptions of finalize or of the last unsubscribe.
C34_HandleInvokedOnce == \A id \in ProviderIds : ~InvokedTwice(id)

\* the step is the bulk consolidation of the first window
ConsolidatesFirst == incPc = "input" /\ incPc' = "consolidated"

\* C35: no PRIORITY_ERROR in bulk consolidation. A bulk consolidation does
\* not throw PRIORITY_ERROR; every point it passes to the merge carries the
\* id of an enabled provider of the metric, and so does every point of the
\* timelines it returns.
C35_NoPriorityErrorInBulk ==
  [][ConsolidatesFirst =>
       /\ ~ConsolidateHealthMetrics(HEALTH_METRICS, FetchedIn(0, boundary)).error
       /\ \A i \in DOMAIN FirstWindow :
            FirstWindow[i].source \in Range(GetProvidersForMetric(incMetric))
       /\ \A m \in HealthMetrics : \A i \in DOMAIN healthData'[m].value :
            LET source == healthData'[m].value[i].source IN
            /\ source \in Range(GetProvidersForMetric(m))
            /\ IsEnabled(source)
            /\ m \in SupportedMetrics(source)]_vars

\* two points of different providers met in the merge of the first window,
\* the priorities were compared and one point was kept
C35_Witness ==
  /\ incPc = "consolidated"
  /\ Len(FirstWindow) = 2
  /\ FirstWindow[1].source # FirstWindow[2].source
  /\ healthData[incMetric].present
  /\ Len(healthData[incMetric].value) = 1

\* no registerProvider and no enableProvider is under way
NoStartUnderWay ==
  /\ \A id \in ProviderIds : registerCall[id] = "settled"
  /\ \A id \in ProviderIds : enableCall[id].pc = "idle"

\* C36: a new listener starts no stream. The step that registers a listener
\* changes neither the handle map nor the subscriptions. When the teardown
\* started by the unsubscribe of the last listener has ended, with no
\* registerProvider or enableProvider under way, the handle map is empty
\* and no realtime subscription is left that could reach a listener
\* registered afterwards.
C36_SubscribeStartsNoStream ==
  [][/\ Len(dataCallbacks') > Len(dataCallbacks) =>
          UNCHANGED <<providerSubscriptions, activeStreams, cleanupAll>>
     /\ (CleanupAllEnds /\ NoStartUnderWay') =>
          /\ providerSubscriptions' = EmptyMap
          /\ activeStreams' = {}]_vars

\* every source of the input of the merge is a key of the lookup
AllSourcesKnown == \A i \in DOMAIN dataPoints : KnownSource(dataPoints[i])

\* C37: the output is made of input points. With every source of the input
\* in the priority lookup the merge does not throw, every point of the list
\* it builds and returns is a point of the input with the same interval
\* and source, the list is never longer than the input, and the returned
\* list is not empty unless the input is.
C37_OutputFromInput ==
  AllSourcesKnown =>
    /\ mergePc # "error"
    /\ mergePc \in {"loop", "done"} =>
         /\ \A i \in DOMAIN merged : \E j \in DOMAIN dataPoints : merged[i] = dataPoints[j]
         /\ Len(merged) <= Len(dataPoints)
    /\ (mergePc = "done" /\ dataPoints # <<>>) => merged # <<>>

\* three points of known sources were merged into two, one of them having
\* taken the place of the first point of the sorted input
C37_Witness ==
  /\ mergePc = "done"
  /\ AllSourcesKnown
  /\ Len(dataPoints) = 3
  /\ Len(merged) = 2
  /\ merged[1] # sortedPoints[1]

\* the start times of a list of points never decrease
AscendingByStart(points) ==
  \A i \in DOMAIN points : \A j \in DOMAIN points :
     i < j => points[i].start <= points[j].start

\* C38: the output is ordered by start time. For inputs of intervals with
\* start <= end the list the merge builds is in ascending order of start
\* after every iteration of the loop, and so is the list it returns; an
\* entry is only ever replaced at the last position of the list.
C38_AscendingByStart ==
  [][/\ mergePc' \in {"loop", "done"} => AscendingByStart(merged')
     /\ (mergePc = "loop" /\ mergePc' # "error" /\ Len(merged') = Len(merged))
          => \A i \in DOMAIN merged : i < Len(merged) => merged'[i] = merged[i]]_vars

\* the first entry was replaced by a point that starts later, and a third
\* point was appended behind it
C38_Witness ==
  /\ mergePc = "done"
  /\ Len(dataPoints) = 3
  /\ Len(merged) = 2
  /\ merged[1] = sortedPoints[2]
  /\ merged[1].start > sortedPoints[1].start
  /\ merged[2] = sortedPoints[3]

\* the call of syncHealthData settles in this step
SyncSettles == refreshCall.pc = "syncing" /\ refreshCall'.pc = "idle"

\* C39: syncHealthData always returns a result. When the consolidation
\* threw (the failing metric is logged) the result has the error set,
\* isLoading false, no health data and the lastSync the call was given;
\* when it did not, the result has error null, the data refreshData then
\* stores and as lastSync the time taken when the call started.
C39_SyncAlwaysReturns ==
  [][SyncSettles =>
       /\ returned'.op = "syncHealthData"
       /\ returned'.result.isLoading = FALSE
       /\ returned'.now = refreshCall.now
       /\ returned'.id # "none" =>
            /\ returned'.result.error \in {"DATA_FETCH_ERROR", PriorityError}
            /\ returned'.result.healthData = NoHealthData
            /\ returned'.result.lastSync = returned'.lastSync
       /\ returned'.id = "none" =>
            /\ returned'.result.error = NoError
            /\ returned'.result.healthData = healthData'
            /\ returned'.result.lastSync = refreshCall.now]_vars

\* a sync started after another call and given the begin of the second last
\* cycle has failed on a fetch and returned that date
C39_Witness ==
  /\ returned.op = "syncHealthData"
  /\ returned.result.error = "DATA_FETCH_ERROR"
  /\ returned.now = 1
  /\ returned.lastSync < 0 - THIRTY_DAYS_MS
  /\ returned.result.lastSync = returned.lastSync
  /\ returned.result.healthData = NoHealthData

\* the stream start of registerProvider(id) settles in this step
RegisterStreamSettles(id) == registerCall[id] = "onData" /\ registerCall'[id] = "settled"

\* C40: a failed stream start leaves the source registered. When the
\* stream start of registerProvider rejects, the call throws the stream
\* error, stores no handle, and the provider is in the provider map, which
\* getAllProviders returns. An entry of the map stays: from then on
\* enableProvider of the id is never rejected with PROVIDER_NOT_FOUND, and a
\* registerProvider of the id that gets past isAvailable throws the
\* duplicate error and starts no stream.
C40_FailedStreamStaysRegistered ==
  [][\A id \in ProviderIds :
       /\ (RegisterStreamSettles(id) /\ returned'.error # NoError) =>
            /\ returned' = Rethrown("register", id, "SUBSCRIPTION_ERROR", <<"onData">>,
                                    returned'.cause)
            /\ returned'.cause # NoError
            /\ UNCHANGED <<providers, providerSubscriptions, activeStreams>>
            /\ id \in Range(GetAllProviders')
       /\ IsRegistered(id) =>
            /\ IsRegistered(id)'
            /\ ~(/\ returned'.op = "enable" /\ returned'.id = id
                 /\ returned'.error = "PROVIDER_NOT_FOUND")
            /\ (enableCall[id].pc = "idle" /\ calls' > calls /\ enableCall'[id] # enableCall[id])
                 => enableCall'[id].pc = "init"
            /\ DuplicateRegisterSettles(id) =>
                 /\ registerCall'[id] = "settled"
                 /\ UNCHANGED <<providers, providerSubscriptions, activeStreams>>
                 /\ returned'.steps # <<"isAvailable:false">> /\ returned'.cause = NoError
                      => returned' = Return("register", id, "Error", <<>>)]_vars

\* the stream of apple-health did not start when it was registered (no
\* handle is stored and no other call has been made); enableProvider has
\* found the provider and called init, and a second registerProvider of
\* apple-health has been rejected as a duplicate
C40_Witness ==
  /\ calls = 2
  /\ providers = <<"apple-health">>
  /\ "apple-health" \notin DOMAIN providerSubscriptions
  /\ activeStreams = {}
  /\ enableCall["apple-health"].pc = "init"
  /\ returned = Return("register", "apple-health", "Error", <<>>)

====
